---- MODULE Spec2Model ----
(***************************************************************************)
(* Model of the airline ETL pipeline: the clean loader                     *)
(* (src/clean/clean_load.py), its key builder build_flight_id, the gold    *)
(* aggregation run (src/aggregate/build_gold.py) and the schema setup      *)
(* (src/ingest/setup_schema.py), against a property-graph store.           *)
(*                                                                         *)
(* Python values are records [t, s, n]: t is the type tag, s the text of   *)
(* a str (a sequence of one-character strings), n the number of an int,    *)
(* the number of tenths of a float, or yyyymmdd of a datetime.date.        *)
(***************************************************************************)
EXTENDS Integers, Sequences, FiniteSets, TLC

\* ------------------------------------------------------------------------
\* Bounds of the model
\* ------------------------------------------------------------------------
\* longest carrier/origin/dest text tried on the key builder
MaxCodeLen == 2
\* most blanks put around a code to make an equivalent input
MaxPad == 1

\* ------------------------------------------------------------------------
\* Python values
\* ------------------------------------------------------------------------
None == [t |-> "none", s |-> <<>>, n |-> 0]
\* a key that a mapping does not hold / a column the file does not have
Absent == [t |-> "absent", s |-> <<>>, n |-> 0]
NaN == [t |-> "nan", s |-> <<>>, n |-> 0]
PyStr(s) == [t |-> "str", s |-> s, n |-> 0]
PyInt(n) == [t |-> "int", s |-> <<>>, n |-> n]
\* a float with one decimal: n is the number of tenths
PyFloat(n) == [t |-> "float", s |-> <<>>, n |-> n]
\* a datetime.date: n is yyyymmdd
PyDate(n) == [t |-> "date", s |-> <<>>, n |-> n]

Whitespace == {" "}

DigitChars == <<"0", "1", "2", "3", "4", "5", "6", "7", "8", "9">>

IsDigit(c) == \E i \in 1..10 : DigitChars[i] = c

DigitVal(c) == (CHOOSE i \in 1..10 : DigitChars[i] = c) - 1

RECURSIVE Digits(_)
\* the decimal digits of n >= 0
Digits(n) == IF n < 10 THEN <<DigitChars[n + 1]>>
             ELSE Digits(n \div 10) \o <<DigitChars[(n % 10) + 1]>>

RECURSIVE ZeroPad(_, _)
\* s filled with zeros on the left up to width w
ZeroPad(s, w) == IF Len(s) >= w THEN s ELSE ZeroPad(<<"0">> \o s, w)

\* format(n, "d"): the decimal text of an int
IntText(n) == IF n < 0 THEN <<"-">> \o Digits(-n) ELSE Digits(n)

\* str.upper() on the letters of the model's alphabet
UpperChar(c) == CASE c = "a" -> "A"
                  [] c = "e" -> "E"
                  [] c = "j" -> "J"
                  [] OTHER -> c

\* str.lower() on the letters of the model's alphabet
LowerChar(c) == CASE c = "A" -> "a"
                  [] c = "E" -> "e"
                  [] c = "J" -> "j"
                  [] OTHER -> c

Upper(s) == [i \in 1..Len(s) |-> UpperChar(s[i])]

RECURSIVE LStrip(_)
LStrip(s) == IF s # <<>> /\ Head(s) \in Whitespace THEN LStrip(Tail(s)) ELSE s

RECURSIVE RStrip(_)
RStrip(s) == IF s # <<>> /\ s[Len(s)] \in Whitespace
             THEN RStrip(SubSeq(s, 1, Len(s) - 1)) ELSE s

\* str.strip()
Strip(s) == RStrip(LStrip(s))

\* date.isoformat(): YYYY-MM-DD
IsoFormat(n) == ZeroPad(Digits(n \div 10000), 4) \o <<"-">>
                \o ZeroPad(Digits((n \div 100) % 100), 2) \o <<"-">>
                \o ZeroPad(Digits(n % 100), 2)

\* the text of a float with one decimal, as str() gives it
FloatText(n) == LET a == IF n < 0 THEN -n ELSE n
                IN (IF n < 0 THEN <<"-">> ELSE <<>>)
                   \o Digits(a \div 10) \o <<".">> \o Digits(a % 10)

\* str(v)
Str(v) == CASE v.t = "str" -> v.s
            [] v.t = "int" -> IntText(v.n)
            [] v.t = "float" -> FloatText(v.n)
            [] v.t = "date" -> IsoFormat(v.n)
            [] v.t = "nan" -> <<"n", "a", "n">>
            [] OTHER -> <<"N", "o", "n", "e">>

\* bool(v), as the operator "or" tests it
Truthy(v) == CASE v.t \in {"none", "absent"} -> FALSE
               [] v.t = "str" -> v.s # <<>>
               [] v.t \in {"int", "float"} -> v.n # 0
               [] OTHER -> TRUE

\* a or b
PyOr(a, b) == IF Truthy(a) THEN a ELSE b

\* truncation toward zero of a number of tenths
TruncTenths(n) == IF n < 0 THEN -((-n) \div 10) ELSE n \div 10

RECURSIVE DigitsValue(_)
\* the number a non-empty sequence of digits denotes
DigitsValue(s) == IF Len(s) = 1 THEN DigitVal(s[1])
                  ELSE 10 * DigitsValue(SubSeq(s, 1, Len(s) - 1)) + DigitVal(s[Len(s)])

\* whether float(text) parses: blanks around an optional sign and digits
IsNumericText(s) ==
    LET u == Strip(s)
        d == IF u # <<>> /\ Head(u) \in {"-", "+"} THEN Tail(u) ELSE u
    IN d # <<>> /\ \A i \in 1..Len(d) : IsDigit(d[i])

\* int(float(text)) of a text that parses
NumericTextValue(s) ==
    LET u == Strip(s)
    IN IF Head(u) = "-" THEN -DigitsValue(Tail(u))
       ELSE IF Head(u) = "+" THEN DigitsValue(Tail(u))
       ELSE DigitsValue(u)

\* whether int(float(v)) returns (it raises on None, NaN, a date, other text)
IntFloatOk(v) == \/ v.t \in {"int", "float"}
                 \/ v.t = "str" /\ IsNumericText(v.s)

\* int(float(v))
IntFloat(v) == CASE v.t = "int" -> v.n
                 [] v.t = "float" -> TruncTenths(v.n)
                 [] OTHER -> NumericTextValue(v.s)

\* ------------------------------------------------------------------------
\* build_flight_id (clean_load.py 12-53)
\* ------------------------------------------------------------------------
DateKeys == <<"fl_date", "FL_DATE", "date">>
CarrierKeys == <<"carrier", "op_carrier", "OP_CARRIER">>
OriginKeys == <<"origin", "ORIGIN">>
DestKeys == <<"dest", "DEST">>
CrsKeys == <<"crs_dep_time", "CRS_DEP_TIME">>

RowKeys == {"fl_date", "FL_DATE", "date", "carrier", "op_carrier", "OP_CARRIER",
            "origin", "ORIGIN", "dest", "DEST", "crs_dep_time", "CRS_DEP_TIME"}

\* row.get(k): None when the mapping has no key k
RowGet(row, k) == IF row[k].t = "absent" THEN None ELSE row[k]

RECURSIVE FirstTruthy(_, _)
\* row.get(k1) or row.get(k2) or ...: the first truthy value, else the last one
FirstTruthy(row, keys) ==
    IF Len(keys) = 1 THEN RowGet(row, keys[1])
    ELSE PyOr(RowGet(row, keys[1]), FirstTruthy(row, Tail(keys)))

\* f"{crs_int:04d}" with three digits only: the padding a digit short
Fmt04dShort(n) == IF n < 0 THEN <<"-">> \o ZeroPad(Digits(-n), 2)
                  ELSE ZeroPad(Digits(n), 3)

\* f"{crs_int:04d}": zero-padded to width 4, the sign counted in the width
Fmt04d(n) == IF n < 0 THEN <<"-">> \o ZeroPad(Digits(-n), 3)
             ELSE ZeroPad(Digits(n), 4)

\* the code as written when the upper-casing is forgotten
KeyCodeNoUpper(v) == Strip(Str(v))

\* str(v).strip().upper() of carrier, origin and dest
KeyCode(v) == Upper(Strip(Str(v)))

KeyError(kind) == [ok |-> FALSE, err |-> kind, key |-> <<>>]

\* the None test of line 43 made on the date alone
MissingFieldDateOnly(vals) == vals[1].t = "none"

\* line 43: one of the five looked-up values is None
MissingField(vals) == \E i \in 1..Len(vals) : vals[i].t = "none"

\* build_flight_id: call.conv is "row" for the mapping call style (call.row the
\* mapping) and "pos" for the five positional arguments; a positional call
\* without its first argument is a TypeError before the body runs
build_flight_id(call) ==
    LET isMap == call.conv = "row"
        fl_date_val == IF isMap THEN FirstTruthy(call.row, DateKeys) ELSE call.fl_date
        carrier_val == IF isMap THEN FirstTruthy(call.row, CarrierKeys) ELSE call.carrier
        origin_val == IF isMap THEN FirstTruthy(call.row, OriginKeys) ELSE call.origin
        dest_val == IF isMap THEN FirstTruthy(call.row, DestKeys) ELSE call.dest
        crs_val == IF isMap THEN FirstTruthy(call.row, CrsKeys) ELSE call.crs_dep_time
        fl_date_str == IF fl_date_val.t = "date" THEN IsoFormat(fl_date_val.n)
                       ELSE Strip(Str(fl_date_val))
    IN IF ~isMap /\ call.fl_date.t = "absent"
       THEN KeyError("type")
       ELSE IF MissingField(<<fl_date_val, carrier_val, origin_val, dest_val, crs_val>>)
       THEN KeyError("missing")
       ELSE IF ~IntFloatOk(crs_val)
       THEN KeyError("convert")
       ELSE [ok |-> TRUE, err |-> "",
             key |-> fl_date_str \o <<"|">> \o KeyCode(carrier_val) \o <<"|">>
                     \o KeyCode(origin_val) \o <<"|">> \o KeyCode(dest_val)
                     \o <<"-">> \o Fmt04d(IntFloat(crs_val))]

\* ------------------------------------------------------------------------
\* Inputs tried on build_flight_id
\* ------------------------------------------------------------------------
CodeAlphabet == {" ", "a", "A", "e"}

\* every text over the alphabet up to MaxCodeLen characters
Codes == UNION {[1..k -> CodeAlphabet] : k \in 0..MaxCodeLen}

Date2020 == <<"2", "0", "2", "0", "-", "0", "1", "-", "0", "1">>

DateVals == {PyStr(Date2020), PyStr(<<" ">> \o Date2020 \o <<" ">>), PyDate(20200101),
             PyStr(<<>>), None, Absent}

CodeVals == {PyStr(s) : s \in Codes} \cup {None, Absent}

CrsVals == {PyInt(0), PyInt(5), PyInt(930), PyInt(2359), PyInt(9999), PyInt(10000),
            PyInt(12345), PyInt(-5), PyFloat(57), PyFloat(-5), PyFloat(23595),
            PyStr(<<"5">>), PyStr(<<" ", "4", "5">>), PyStr(<<"x">>), NaN, None, Absent}

BaseTuples ==
    {[date |-> PyStr(Date2020), carrier |-> PyStr(<<"A", "A">>),
      origin |-> PyStr(<<"E">>), dest |-> PyStr(<<"J">>), crs |-> PyInt(5)],
     [date |-> PyDate(20200101), carrier |-> PyStr(<<" ", "a", "a", " ">>),
      origin |-> PyStr(<<"e", " ">>), dest |-> PyStr(<<"j", "A">>), crs |-> PyFloat(9305)]}

\* the base tuples with one field replaced by each value of its domain
KeyTuples ==
    UNION {{[b EXCEPT !.date = v] : v \in DateVals}
           \cup {[b EXCEPT !.carrier = v] : v \in CodeVals}
           \cup {[b EXCEPT !.origin = v] : v \in CodeVals}
           \cup {[b EXCEPT !.dest = v] : v \in CodeVals}
           \cup {[b EXCEPT !.crs = v] : v \in CrsVals} : b \in BaseTuples}

\* the call styles: positional, or a mapping holding each value under its
\* first, second or third alias
KeyStyles == {[conv |-> "pos", alias |-> 1]} \cup {[conv |-> "row", alias |-> a] : a \in 1..3}

AliasKey(keys, a) == keys[IF a > Len(keys) THEN Len(keys) ELSE a]

EmptyRow == [k \in RowKeys |-> Absent]

\* an optional argument: None when the caller leaves it out (lines 14-17)
Default(v) == IF v.t = "absent" THEN None ELSE v

\* the call that passes tuple tup in style st; a value that is Absent is left
\* out of the call (no such key in the mapping, no such argument)
MakeCall(tup, st) ==
    IF st.conv = "pos"
    THEN [conv |-> "pos", row |-> EmptyRow, fl_date |-> tup.date,
          carrier |-> Default(tup.carrier), origin |-> Default(tup.origin),
          dest |-> Default(tup.dest), crs_dep_time |-> Default(tup.crs)]
    ELSE [conv |-> "row",
          row |-> [k \in RowKeys |->
                     CASE k = AliasKey(DateKeys, st.alias) -> tup.date
                       [] k = AliasKey(CarrierKeys, st.alias) -> tup.carrier
                       [] k = AliasKey(OriginKeys, st.alias) -> tup.origin
                       [] k = AliasKey(DestKeys, st.alias) -> tup.dest
                       [] k = AliasKey(CrsKeys, st.alias) -> tup.crs
                       [] OTHER -> Absent],
          fl_date |-> None, carrier |-> None, origin |-> None, dest |-> None,
          crs_dep_time |-> None]

FlipChar(c) == IF UpperChar(c) # c THEN UpperChar(c) ELSE LowerChar(c)

Blanks(k) == [i \in 1..k |-> " "]

\* s with the letters at the positions P in the other case and l blanks before, r after
Recase(s, P, l, r) ==
    Blanks(l) \o [i \in 1..Len(s) |-> IF i \in P THEN FlipChar(s[i]) ELSE s[i]] \o Blanks(r)

\* the re-cased, re-padded writings of a code value (None has only itself)
CodeVariants(v) ==
    IF v.t # "str" THEN {v}
    ELSE {PyStr(Recase(v.s, P, l, r)) : P \in SUBSET (1..Len(v.s)), l \in 0..MaxPad, r \in 0..MaxPad}

\* the tuples that differ from tup in the case or surrounding blanks of one code
TupleVariants(tup) ==
    {[tup EXCEPT !.carrier = v] : v \in CodeVariants(tup.carrier)}
    \cup {[tup EXCEPT !.origin = v] : v \in CodeVariants(tup.origin)}
    \cup {[tup EXCEPT !.dest = v] : v \in CodeVariants(tup.dest)}

\* ------------------------------------------------------------------------
\* The clean loader's row handling (clean_load.py 56-84, 120-144)
\* ------------------------------------------------------------------------
FlDateKeys == <<"fl_date", "flight_date", "flightdate">>
OpCarrierKeys == <<"op_carrier", "carrier", "unique_carrier">>
FlNumKeys == <<"op_carrier_fl_num", "flight_num", "fl_num">>
OriginAliases == <<"origin", "origin_airport", "orig">>
DestAliases == <<"dest", "destination", "dest_airport">>

\* the columns a file may have, by their case-folded, trimmed name
BaseCols == {"fl_date", "flight_date", "flightdate", "op_carrier", "carrier",
             "unique_carrier", "op_carrier_fl_num", "flight_num", "fl_num",
             "origin", "origin_airport", "orig", "dest", "destination", "dest_airport",
             "crs_dep_time", "dep_time", "dep_delay", "arr_delay", "cancelled", "diverted"}

\* a column name: its letters (base), whether the header writes it in upper case
\* and whether it writes blanks around it
ColName(b, upper, pad) == [base |-> b, upper |-> upper, pad |-> pad]

\* norm_cols without the case-folding
norm_cols_keep_case(df) ==
    [df EXCEPT !.cols = {ColName(c.base, c.upper, FALSE) : c \in df.cols}]

\* norm_cols: every column name trimmed and lower-cased
norm_cols(df) ==
    [df EXCEPT !.cols = {ColName(c.base, FALSE, FALSE) : c \in df.cols}]

\* r.to_dict(): the row's cells under the frame's column names
ToDict(df, r) == [cols |-> df.cols, cells |-> r]

\* k in row
HasKey(rec, k) == ColName(k, FALSE, FALSE) \in rec.cols /\ rec.cells[k].t # "absent"

\* pd.notna(v)
NotNa(v) == v.t \notin {"nan", "none", "absent"}

RECURSIVE pick(_, _)
\* pick: the value under the first key that is present, not NA and not blank
pick(rec, keys) ==
    IF keys = <<>> THEN None
    ELSE IF /\ HasKey(rec, Head(keys))
            /\ NotNa(rec.cells[Head(keys)])
            /\ Strip(Str(rec.cells[Head(keys)])) # <<>>
         THEN rec.cells[Head(keys)]
         ELSE pick(rec, Tail(keys))

\* to_int: int(float(x)), None for None, NaN and what does not parse
to_int(x) == IF x.t \in {"none", "nan"} \/ ~IntFloatOk(x) THEN None
             ELSE PyInt(IntFloat(x))

\* to_float: float(x), None for None, NaN and what does not parse
to_float(x) == IF x.t \in {"none", "nan"} \/ ~IntFloatOk(x) THEN None
               ELSE IF x.t = "float" THEN x
               ELSE PyFloat(10 * IntFloat(x))

\* the properties a row sets on its entity
RowProps == {"flight_id", "fl_date", "op_carrier", "op_carrier_fl_num", "origin", "dest",
             "crs_dep_time", "dep_time", "dep_delay", "arr_delay", "cancelled", "diverted"}

\* the filter when only a missing origin drops the row
KeepRowOriginOnly(rec) == pick(rec, OriginAliases).t # "none"

\* the origin/dest filter of line 128: the row is kept
KeepRow(rec) == pick(rec, OriginAliases).t # "none" /\ pick(rec, DestAliases).t # "none"

\* the row dict of lines 131-144
BuildRow(rec) ==
    LET fl_date == pick(rec, FlDateKeys)
        op_carrier == pick(rec, OpCarrierKeys)
        op_carrier_fl_num == pick(rec, FlNumKeys)
        origin == pick(rec, OriginAliases)
        dest == pick(rec, DestAliases)
    IN [flight_id |-> PyStr(Str(fl_date) \o <<"_">> \o Str(op_carrier) \o <<"_">>
                            \o Str(op_carrier_fl_num) \o <<"_">> \o Str(origin)
                            \o <<"_">> \o Str(dest)),
        fl_date |-> PyStr(Str(fl_date)),
        op_carrier |-> PyStr(Str(op_carrier)),
        op_carrier_fl_num |-> PyStr(Str(op_carrier_fl_num)),
        origin |-> PyStr(Strip(Str(origin))),
        dest |-> PyStr(Strip(Str(dest))),
        crs_dep_time |-> to_int(pick(rec, <<"crs_dep_time">>)),
        dep_time |-> to_int(pick(rec, <<"dep_time">>)),
        dep_delay |-> to_float(pick(rec, <<"dep_delay">>)),
        arr_delay |-> to_float(pick(rec, <<"arr_delay">>)),
        cancelled |-> to_int(pick(rec, <<"cancelled">>)),
        diverted |-> to_int(pick(rec, <<"diverted">>))]

\* ------------------------------------------------------------------------
\* The store: a sequence of nodes, each with labels and properties; a property
\* that is None is a property the node does not have
\* ------------------------------------------------------------------------
\* the properties the summary entities carry
SummaryProps == {"origin", "dest", "carrier", "date", "airport", "month", "flights",
                 "avg_arr_delay", "avg_dep_delay", "cancel_rate"}

NodeProps == RowProps \cup SummaryProps

NewNode(labels, flight_id) ==
    [labels |-> labels,
     props |-> [p \in NodeProps |-> IF p = "flight_id" THEN flight_id ELSE None]]

\* the nodes MERGE (f:CleanFlight {flight_id: row.flight_id}) matches
Matching(st, row) ==
    {i \in 1..Len(st) : "CleanFlight" \in st[i].labels
                        /\ st[i].props["flight_id"] = row.flight_id}

\* the statement with CREATE in the place of MERGE: a node per row
MergeRowCreate(st, row) ==
    Append(st, [labels |-> {"CleanFlight", "Flight"},
                props |-> [p \in NodeProps |-> IF p \in DOMAIN row THEN row[p] ELSE None]])

\* SET f += row when a null value leaves the property as it was
MergeRowKeepNulls(st, row) ==
    LET found == Matching(st, row)
        st1 == IF found = {} THEN Append(st, NewNode({"CleanFlight"}, row.flight_id)) ELSE st
        hit == IF found = {} THEN {Len(st1)} ELSE found
    IN [i \in 1..Len(st1) |->
          IF i \in hit
          THEN [labels |-> st1[i].labels \cup {"Flight"},
                props |-> [p \in NodeProps |->
                             IF p \in DOMAIN row /\ row[p] # None
                             THEN row[p] ELSE st1[i].props[p]]]
          ELSE st1[i]]

\* one row of the upsert statement (lines 106-111): MERGE on flight_id,
\* SET f += row (a null value removes the property), SET f:Flight
MergeRow(st, row) ==
    LET found == Matching(st, row)
        st1 == IF found = {} THEN Append(st, NewNode({"CleanFlight"}, row.flight_id)) ELSE st
        hit == IF found = {} THEN {Len(st1)} ELSE found
    IN [i \in 1..Len(st1) |->
          IF i \in hit
          THEN [labels |-> st1[i].labels \cup {"Flight"},
                props |-> [p \in NodeProps |->
                             IF p \in DOMAIN row THEN row[p] ELSE st1[i].props[p]]]
          ELSE st1[i]]

\* the statement without UNWIND: only the first row of the batch is applied
UpsertHeadOnly(st, batch) == IF batch = <<>> THEN st ELSE MergeRow(st, Head(batch))

RECURSIVE Upsert(_, _)
\* UNWIND $rows AS row ...: the rows applied in order
Upsert(st, batch) ==
    IF batch = <<>> THEN st ELSE Upsert(MergeRow(st, Head(batch)), Tail(batch))

RECURSIVE UpsertAll(_, _)
\* the store after a sequence of batches
UpsertAll(st, batches) ==
    IF batches = <<>> THEN st ELSE UpsertAll(Upsert(st, Head(batches)), Tail(batches))

Pending == [ok |-> FALSE, err |-> "pending", key |-> <<>>]

\* ------------------------------------------------------------------------
\* The aggregate statements of build_gold.main (lines 94-151)
\* ------------------------------------------------------------------------
\* an average or a rate, in thousandths
PyMilli(n) == [t |-> "milli", s |-> <<>>, n |-> n]

\* the nodes labelled Flight
FlightNodes(st) == {i \in 1..Len(st) : "Flight" \in st[i].labels}

\* whether Cypher's date() reads the text: YYYY-MM-DD with a month and a day
DateParses(v) ==
    /\ v.t = "str" /\ Len(v.s) = 10
    /\ \A i \in {1, 2, 3, 4, 6, 7, 9, 10} : IsDigit(v.s[i])
    /\ v.s[5] = "-" /\ v.s[8] = "-"
    /\ DigitsValue(SubSeq(v.s, 6, 7)) \in 1..12
    /\ DigitsValue(SubSeq(v.s, 9, 10)) \in 1..31

\* date(text), as yyyymmdd
CypherDate(v) == PyDate(DigitsValue(SubSeq(v.s, 1, 4)) * 10000
                        + DigitsValue(SubSeq(v.s, 6, 7)) * 100
                        + DigitsValue(SubSeq(v.s, 9, 10)))

\* substring(toString(date), 0, 7): YYYY-MM
MonthOf(d) == PyStr(SubSeq(IsoFormat(d.n), 1, 7))

\* coalesce(v, 0.0) of a delay, in tenths
DelayTenths(v) == IF v.t = "none" THEN 0 ELSE v.n

RECURSIVE SumOver(_, _)
\* the sum of val[i] over the nodes I
SumOver(val, I) ==
    IF I = {} THEN 0
    ELSE LET i == CHOOSE x \in I : TRUE
         IN val[i] + SumOver(val, I \ {i})

\* avg() over the nodes I of values given in tenths, in thousandths
AvgTenths(val, I) == PyMilli((SumOver(val, I) * 100) \div Cardinality(I))

\* coalesce(f.arr_delay, 0.0) of every node
ArrDelays(st) == [i \in 1..Len(st) |-> DelayTenths(st[i].props["arr_delay"])]

\* coalesce(f.dep_delay, 0.0) of every node
DepDelays(st) == [i \in 1..Len(st) |-> DelayTenths(st[i].props["dep_delay"])]

\* CASE WHEN coalesce(f.cancelled, 0) = 1 THEN 1.0 ELSE 0.0 END of every node
Cancels(st) == [i \in 1..Len(st) |-> IF st[i].props["cancelled"] = PyInt(1) THEN 10 ELSE 0]

\* CREATE (n:label {keys}) SET n.stats: a new node each time
MergeSummaryCreate(st, label, keys, stats) ==
    Append(st, [labels |-> {label},
                props |-> [p \in NodeProps |->
                             IF p \in DOMAIN stats THEN stats[p]
                             ELSE IF p \in DOMAIN keys THEN keys[p] ELSE None]])

\* MERGE (n:label {keys}) SET n.stats: the node with these key properties gets
\* the statistics, and is created first when there is none
MergeSummary(st, label, keys, stats) ==
    LET found == {i \in 1..Len(st) : /\ label \in st[i].labels
                                     /\ \A k \in DOMAIN keys : st[i].props[k] = keys[k]}
        st1 == IF found # {} THEN st
               ELSE Append(st, [labels |-> {label},
                                props |-> [p \in NodeProps |->
                                             IF p \in DOMAIN keys THEN keys[p] ELSE None]])
        hit == IF found # {} THEN found ELSE {Len(st1)}
    IN [i \in 1..Len(st1) |->
          IF i \in hit
          THEN [st1[i] EXCEPT !.props = [p \in NodeProps |->
                                           IF p \in DOMAIN stats THEN stats[p] ELSE @[p]]]
          ELSE st1[i]]

\* the statistics a statement sets on the summary of the flights G of src
SummaryStats(kind, src, G) ==
    CASE kind = "RouteSummary" ->
           [flights |-> PyInt(Cardinality(G)),
            avg_arr_delay |-> AvgTenths(ArrDelays(src), G),
            avg_dep_delay |-> AvgTenths(DepDelays(src), G)]
      [] kind = "DailyCarrierSummary" ->
           [avg_dep_delay |-> AvgTenths(DepDelays(src), G),
            flights |-> PyInt(Cardinality(G))]
      [] OTHER ->
           [avg_dep_delay |-> AvgTenths(DepDelays(src), G),
            cancel_rate |-> AvgTenths(Cancels(src), G),
            flights |-> PyInt(Cardinality(G))]

RECURSIVE FoldGroups(_, _, _, _, _)
\* one MERGE ... SET per group: the flights F not yet grouped are taken group
\* by group, the group of the first of them next; keyOf[i] is the group key of
\* flight i
FoldGroups(st, src, F, keyOf, kind) ==
    IF F = {} THEN st
    ELSE LET first == CHOOSE i \in F : \A j \in F : i <= j
             G == {i \in F : keyOf[i] = keyOf[first]}
         IN FoldGroups(MergeSummary(st, kind, keyOf[first], SummaryStats(kind, src, G)),
                       src, F \ G, keyOf, kind)

\* the flights the route statement reads
RouteSource(st) == {i \in FlightNodes(st) : /\ st[i].props["origin"].t # "none"
                                            /\ st[i].props["dest"].t # "none"}

\* lines 94-109: one RouteSummary per (origin, dest) of the flights that have both
route_summary(st) ==
    FoldGroups(st, st, RouteSource(st),
               [i \in RouteSource(st) |-> [origin |-> st[i].props["origin"],
                                           dest |-> st[i].props["dest"]]],
               "RouteSummary")

\* the flights the daily statement reads
DailySource(st) == {i \in FlightNodes(st) : /\ st[i].props["op_carrier"].t # "none"
                                            /\ st[i].props["fl_date"].t # "none"}

\* lines 114-128: one DailyCarrierSummary per (op_carrier, date(fl_date))
daily_carrier_summary(st) ==
    FoldGroups(st, st, DailySource(st),
               [i \in DailySource(st) |-> [carrier |-> st[i].props["op_carrier"],
                                           date |-> CypherDate(st[i].props["fl_date"])]],
               "DailyCarrierSummary")

\* the flights the monthly statement reads
MonthlySource(st) == {i \in FlightNodes(st) : /\ st[i].props["origin"].t # "none"
                                              /\ st[i].props["fl_date"].t # "none"}

\* lines 133-149: one MonthlyAirportSummary per (origin, month of fl_date)
monthly_airport_summary(st) ==
    FoldGroups(st, st, MonthlySource(st),
               [i \in MonthlySource(st) |->
                  [airport |-> st[i].props["origin"],
                   month |-> MonthOf(CypherDate(st[i].props["fl_date"]))]],
               "MonthlyAirportSummary")

\* whether date() reads the fl_date of every flight a statement reads
DatesParse(st, I) == \A i \in I : DateParses(st[i].props["fl_date"])

\* ------------------------------------------------------------------------
\* Inputs of the clean loader
\* ------------------------------------------------------------------------
\* most data rows of the input file
MaxRows == 3
\* largest CLEAN_CHUNK tried
MaxChunk == 3
\* largest CLEAN_BATCH tried
MaxBatch == 2

Cells(f) == [c \in BaseCols |-> IF c \in DOMAIN f THEN f[c] ELSE Absent]

\* a flight E-J, every field given
RawFull ==
    Cells([fl_date |-> PyStr(Date2020), op_carrier |-> PyStr(<<"A", "A">>),
           op_carrier_fl_num |-> PyInt(1), origin |-> PyStr(<<"E">>),
           dest |-> PyStr(<<"J">>), crs_dep_time |-> PyInt(930),
           dep_delay |-> PyFloat(50), cancelled |-> PyInt(0)])

\* the same flight at another scheduled time, its origin under an alias, no
\* delay known, a cancelled flag that is no number
RawRetimed ==
    [RawFull EXCEPT !["origin"] = NaN, !["orig"] = PyStr(<<"E">>),
                    !["crs_dep_time"] = PyFloat(10005), !["dep_delay"] = NaN,
                    !["cancelled"] = PyStr(<<"x">>)]

\* no dest
RawNoDest == [RawFull EXCEPT !["dest"] = NaN]

\* a blank origin and a dest only under an alias
RawBlankOrigin ==
    [RawFull EXCEPT !["origin"] = PyStr(<<" ">>), !["dest"] = Absent,
                    !["destination"] = PyStr(<<"J">>)]

\* another route with blanks around its origin, no date, no carrier
RawOther ==
    Cells([origin_airport |-> PyStr(<<" ", "J">>), dest_airport |-> PyStr(<<"E">>),
           fl_num |-> PyFloat(20), crs_dep_time |-> PyInt(5), dep_delay |-> PyInt(7),
           cancelled |-> PyInt(1)])

\* another flight of the same carrier on the same route and day, cancelled
RawSecond ==
    [RawFull EXCEPT !["op_carrier_fl_num"] = PyInt(2), !["dep_delay"] = PyFloat(25),
                    !["arr_delay"] = PyFloat(-40), !["cancelled"] = PyInt(1)]

\* the flight back, a month later
RawReturn ==
    [RawFull EXCEPT !["origin"] = PyStr(<<"J">>), !["dest"] = PyStr(<<"E">>),
                    !["fl_date"] = PyStr(<<"2", "0", "2", "0", "-", "0", "2", "-", "0", "1">>)]

\* the data rows a file is made of, by name
RawRows == {"full", "retimed", "nodest", "blankorigin", "other"}

\* the cells of a data row
RawCells(name) == CASE name = "full" -> RawFull
                    [] name = "retimed" -> RawRetimed
                    [] name = "nodest" -> RawNoDest
                    [] name = "blankorigin" -> RawBlankOrigin
                    [] name = "second" -> RawSecond
                    [] name = "return" -> RawReturn
                    [] OTHER -> RawOther

\* the ways the column names of a frame may be written
ColumnSets == {{ColName(c, u, p) : c \in BaseCols} : u \in BOOLEAN, p \in BOOLEAN}

\* the row dict of every data row under every writing of the column names
RowDicts ==
    {<<cols, name, BuildRow([cols |-> cols, cells |-> RawCells(name)])>> :
        cols \in ColumnSets, name \in RawRows \cup {"second", "return"}}

\* the row dict the loop builds from the row `name` of frame df (lines 120-144)
RowDict(df, name) == (CHOOSE t \in RowDicts : t[1] = df.cols /\ t[2] = name)[3]

\* how a file's header writes its column names: as they are, or in upper case
\* with blanks around
HeaderStyles == {[upper |-> FALSE, pad |-> FALSE], [upper |-> TRUE, pad |-> TRUE]}

\* the DataFrame read_csv yields for the data rows rs under header style h
Frame(h, rs) == [cols |-> {ColName(c, h.upper, h.pad) : c \in BaseCols}, rows |-> rs]

NoFrame == [cols |-> {}, rows |-> <<>>]

\* what an earlier clean load of one row left in the store
PriorBatch == <<BuildRow(ToDict(norm_cols(Frame([upper |-> FALSE, pad |-> FALSE], <<>>)),
                                RawRetimed))>>

\* most flights in the store a gold build starts from
MaxFlights == 2

\* most times a gold build is run again
MaxReruns == 1

\* wait_for_neo4j's default number of attempts (build_gold.py 29)
WaitAttempts == 15

\* sleep_s of wait_for_neo4j, in tenths of a second
WaitSleep == 20

\* most retries tried on run_query
MaxRetries == 3

\* run_query's default number of retries (app.py 36)
DefaultRetries == 3

\* sleep_s of run_query, in tenths of a second (app.py 37)
QuerySleep == 10

Programs == {"clean_load", "build_gold", "setup_schema", "run_query"}

VARIABLES
    prog,           \* the program that runs
    pc,             \* where its main is
    driver,         \* "none", "open" or "closed"
    acquired,       \* how many drivers the run created
    hdr,            \* the header style of the input file
    csv,            \* the data rows of the input file
    pos,            \* how many of them read_csv has yielded
    chunk,          \* the chunk under iteration (the rows not yet visited)
    rows,           \* the accumulator
    total_inserted, \* the running total
    reported,       \* the total printed at the end (-1: nothing printed)
    chunk_size, batch_size,
    store,          \* the nodes of the graph store
    constraints,    \* the names of its constraints
    prior,          \* history: the batches earlier runs flushed
    flushed,        \* history: the batches this run flushed
    kept,           \* history: the rows this run appended to the accumulator
    log,            \* history: the statements this run sent to the store
    attempt,        \* wait_for_neo4j: the connectivity checks made
    step,           \* the statement of a list of statements that is next
    raised,         \* build_gold: an error is on its way through the finally
    runs,           \* build_gold: the runs completed before this one
    kpc, ktup, kvar, kstyle, kres, kvarres,
    fpc,            \* CleanFlight: "new", "built" or "again"
    pydantic_v2,    \* PYDANTIC_V2: which pydantic the import found
    fin,            \* the field values given to CleanFlight(...)
    fout,           \* the outcome of the construction
    fagain,         \* the outcome of validating the constructed record again
    query,          \* run_query: the query
    retries,        \* run_query: the retries argument
    last_err,       \* the last error a retry loop caught
    error,          \* the error that left the retry loop
    answer,         \* run_query: the frame returned
    checks,         \* history: the outcome of each connectivity check or query attempt
    slept           \* history: the sleeps made

lvars == <<prog, pc, driver, acquired, hdr, csv, pos, chunk, rows, total_inserted,
           reported, chunk_size, batch_size, store, constraints, prior, flushed, kept, log,
           attempt, step, raised, runs>>

kvars == <<kpc, ktup, kvar, kstyle, kres, kvarres>>

fvars == <<fpc, pydantic_v2, fin, fout, fagain>>

rvars == <<query, retries, last_err, error, answer, checks, slept>>

vars == <<lvars, kvars, fvars, rvars>>

RECURSIVE SeqsUpTo(_, _)
\* the sequences over S of length at most n
SeqsUpTo(S, n) ==
    IF n = 0 THEN {<<>>}
    ELSE LET shorter == SeqsUpTo(S, n - 1)
         IN shorter \cup {Append(q, x) : q \in {q \in shorter : Len(q) = n - 1}, x \in S}

\* the stores a run may find: empty and without constraint, or as an earlier
\* clean load left it
InitStores == {[store |-> <<>>, constraints |-> {}, prior |-> <<>>],
               [store |-> UpsertAll(<<>>, <<PriorBatch>>),
                constraints |-> {"cleanflight_fid"}, prior |-> <<PriorBatch>>]}

\* the header and rows of the file read by a run that reads none
NoInput == /\ hdr = [upper |-> FALSE, pad |-> FALSE] /\ csv = <<>>
           /\ chunk_size = 1 /\ batch_size = 1

\* the batches whose clean load gives the stores a gold build starts from
GoldBatches ==
    {[i \in 1..Len(q) |->
        BuildRow(ToDict(norm_cols(Frame([upper |-> FALSE, pad |-> FALSE], <<>>)),
                        RawCells(q[i])))] :
       q \in SeqsUpTo({"full", "retimed", "other", "second", "return"}, MaxFlights)}

\* the queries of the dashboard tried: the connection test (app.py 58) and the
\* first debug query (app.py 68)
Queries == {"return_one", "route_keys"}

\* the stores the dashboard may read: flights, with or without route summaries
QueryStores == {[prior |-> <<b>>, store |-> Upsert(<<>>, b)] : b \in GoldBatches}
               \cup {[prior |-> <<b>>, store |-> route_summary(Upsert(<<>>, b))] :
                        b \in GoldBatches}

\* pd.DataFrame([r.data() for r in res]): the frame of the query's rows
QueryFrame(q, st) ==
    IF q = "return_one" THEN [cols |-> <<"ok">>, rows |-> <<<<PyInt(1)>>>>]
    ELSE LET R == {i \in 1..Len(st) : "RouteSummary" \in st[i].labels}
         IN [cols |-> <<"keys">>,
             rows |-> IF R = {} THEN <<>>
                      ELSE LET i == CHOOSE x \in R : \A y \in R : x <= y
                           IN <<<<{p \in NodeProps : st[i].props[p].t # "none"}>>>>]

LoaderInit ==
    /\ prog \in Programs
    /\ pc = "start"
    /\ driver = "none"
    /\ acquired = 0
    /\ pos = 0
    /\ chunk = NoFrame
    /\ rows = <<>>
    /\ total_inserted = 0
    /\ reported = -1
    /\ flushed = <<>>
    /\ kept = <<>>
    /\ log = <<>>
    /\ attempt = 0
    /\ step = 1
    /\ raised = FALSE
    /\ runs = 0
    /\ \/ /\ prog = "clean_load"
          /\ hdr \in HeaderStyles
          /\ csv \in SeqsUpTo(RawRows, MaxRows)
          /\ chunk_size \in 1..MaxChunk
          /\ batch_size \in 1..MaxBatch
          /\ \E s \in InitStores :
                store = s.store /\ constraints = s.constraints /\ prior = s.prior
       \/ /\ prog = "build_gold"
          /\ NoInput
          /\ \E b \in GoldBatches :
                /\ store = Upsert(<<>>, b)
                /\ constraints = {"cleanflight_fid"}
                /\ prior = <<b>>
       \/ /\ prog = "setup_schema"
          /\ NoInput
          /\ \E s \in InitStores :
                store = s.store /\ constraints = s.constraints /\ prior = s.prior
       \/ /\ prog = "run_query"
          /\ NoInput
          /\ \E s \in QueryStores : store = s.store /\ prior = s.prior
          /\ constraints = {"cleanflight_fid"}

\* the loader's variables while only the key builder is exercised
LoaderParked ==
    /\ prog = "none" /\ pc = "none" /\ driver = "none" /\ acquired = 0
    /\ hdr = [upper |-> FALSE, pad |-> FALSE] /\ csv = <<>> /\ pos = 0 /\ chunk = NoFrame
    /\ rows = <<>> /\ total_inserted = 0 /\ reported = -1 /\ chunk_size = 1
    /\ batch_size = 1 /\ store = <<>> /\ constraints = {} /\ prior = <<>>
    /\ flushed = <<>> /\ kept = <<>> /\ log = <<>>
    /\ attempt = 0 /\ step = 1 /\ raised = FALSE /\ runs = 0

KeyParked ==
    /\ kpc = "none" /\ ktup = None /\ kvar = None
    /\ kstyle = [conv |-> "pos", alias |-> 1] /\ kres = Pending /\ kvarres = Pending

\* the model's variables while no CleanFlight is constructed
FlightParked ==
    /\ fpc = "none" /\ pydantic_v2 = TRUE /\ fin = None /\ fout = None /\ fagain = None

\* the state of the retry loops before any of them ran
RetryInit ==
    /\ query = "none" /\ retries = 0 /\ last_err = "none" /\ error = "none"
    /\ answer = None /\ checks = <<>> /\ slept = <<>>

Stmt(kind, ok, n) == [stmt |-> kind, ok |-> ok, n |-> n]

\* ------------------------------------------------------------------------
\* clean_load.main (lines 87-158)
\* ------------------------------------------------------------------------
\* the start of a run that goes to the chunks without ensuring the constraint
CleanGetDriverNoConstraint ==
    /\ prog = "clean_load" /\ pc = "start"
    /\ driver' = "open"
    /\ acquired' = acquired + 1
    /\ pc' = "chunks"
    /\ UNCHANGED <<kvars, fvars, runs, rvars, attempt, step, raised, prog, hdr, csv, pos, chunk, rows,
                   total_inserted, reported, chunk_size, batch_size, store, constraints,
                   prior, flushed, kept, log>>

\* line 93: GraphDatabase.driver(...)
CleanGetDriver ==
    /\ prog = "clean_load" /\ pc = "start"
    /\ driver' = "open"
    /\ acquired' = acquired + 1
    /\ pc' = "constraint"
    /\ UNCHANGED <<kvars, fvars, runs, rvars, attempt, step, raised, prog, hdr, csv, pos, chunk, rows, total_inserted, reported, chunk_size,
                   batch_size, store, constraints, prior, flushed, kept, log>>

\* lines 95-99: CREATE CONSTRAINT cleanflight_fid IF NOT EXISTS
CleanEnsureConstraint ==
    /\ prog = "clean_load" /\ pc = "constraint"
    /\ constraints' = constraints \cup {"cleanflight_fid"}
    /\ log' = Append(log, Stmt("constraint", TRUE, 0))
    /\ pc' = "chunks"
    /\ UNCHANGED <<kvars, fvars, runs, rvars, attempt, step, raised, prog, driver, acquired, hdr, csv, pos, chunk, rows, total_inserted,
                   reported, chunk_size, batch_size, store, prior, flushed, kept>>

\* lines 95-99 when the store raises: the error leaves main, line 157 is not reached
CleanEnsureConstraintFail ==
    /\ prog = "clean_load" /\ pc = "constraint"
    /\ log' = Append(log, Stmt("constraint", FALSE, 0))
    /\ pc' = "failed"
    /\ UNCHANGED <<kvars, fvars, runs, rvars, attempt, step, raised, prog, driver, acquired, hdr, csv, pos, chunk, rows, total_inserted,
                   reported, chunk_size, batch_size, store, constraints, prior, flushed, kept>>

\* the next chunk is read and the accumulator is left as it is
CleanReadChunkKeepRows ==
    /\ prog = "clean_load" /\ pc = "chunks"
    /\ pos < Len(csv)
    /\ LET last == IF pos + chunk_size > Len(csv) THEN Len(csv) ELSE pos + chunk_size
       IN /\ chunk' = norm_cols(Frame(hdr, SubSeq(csv, pos + 1, last)))
          /\ pos' = last
    /\ pc' = "rows"
    /\ UNCHANGED <<kvars, fvars, runs, rvars, attempt, step, raised, prog, driver, acquired,
                   hdr, csv, rows, total_inserted, reported, chunk_size, batch_size, store,
                   constraints, prior, flushed, kept, log>>

\* lines 114-117: read_csv yields the next chunk; its columns are normalised and
\* the accumulator is set to the empty list
CleanReadChunk ==
    /\ prog = "clean_load" /\ pc = "chunks"
    /\ pos < Len(csv)
    /\ LET last == IF pos + chunk_size > Len(csv) THEN Len(csv) ELSE pos + chunk_size
       IN /\ chunk' = norm_cols(Frame(hdr, SubSeq(csv, pos + 1, last)))
          /\ pos' = last
    /\ rows' = <<>>
    /\ pc' = "rows"
    /\ UNCHANGED <<kvars, fvars, runs, rvars, attempt, step, raised, prog, driver, acquired, hdr, csv, total_inserted, reported, chunk_size,
                   batch_size, store, constraints, prior, flushed, kept, log>>

\* lines 119-129: a row whose origin or dest does not resolve is passed over
CleanSkipRow ==
    /\ prog = "clean_load" /\ pc = "rows"
    /\ chunk.rows # <<>>
    /\ ~KeepRow(ToDict(chunk, RawCells(Head(chunk.rows))))
    /\ chunk' = [chunk EXCEPT !.rows = Tail(chunk.rows)]
    /\ UNCHANGED <<kvars, fvars, runs, rvars, attempt, step, raised, prog, pc, driver, acquired, hdr, csv, pos, rows, total_inserted, reported,
                   chunk_size, batch_size, store, constraints, prior, flushed, kept, log>>

\* a kept row is appended without the test of line 149
CleanAppendRowOver ==
    /\ prog = "clean_load" /\ pc = "rows"
    /\ chunk.rows # <<>>
    /\ KeepRow(ToDict(chunk, RawCells(Head(chunk.rows))))
    /\ LET row == RowDict(chunk, Head(chunk.rows))
       IN /\ rows' = Append(rows, row)
          /\ kept' = Append(kept, row)
    /\ chunk' = [chunk EXCEPT !.rows = Tail(chunk.rows)]
    /\ UNCHANGED <<kvars, fvars, runs, rvars, attempt, step, raised, prog, pc, driver,
                   acquired, hdr, csv, pos, total_inserted, reported, chunk_size,
                   batch_size, store, constraints, prior, flushed, log>>

\* lines 119-148: a kept row is appended; the batch is not full yet
CleanAppendRow ==
    /\ prog = "clean_load" /\ pc = "rows"
    /\ chunk.rows # <<>>
    /\ KeepRow(ToDict(chunk, RawCells(Head(chunk.rows))))
    /\ LET row == RowDict(chunk, Head(chunk.rows))
       IN /\ ~(Len(rows) + 1 >= batch_size)
          /\ rows' = Append(rows, row)
          /\ kept' = Append(kept, row)
    /\ chunk' = [chunk EXCEPT !.rows = Tail(chunk.rows)]
    /\ UNCHANGED <<kvars, fvars, runs, rvars, attempt, step, raised, prog, pc, driver, acquired, hdr, csv, pos, total_inserted, reported,
                   chunk_size, batch_size, store, constraints, prior, flushed, log>>

\* lines 119-151: a kept row fills the batch, which is upserted; the total
\* grows and the accumulator is reset
CleanAppendFlush ==
    /\ prog = "clean_load" /\ pc = "rows"
    /\ chunk.rows # <<>>
    /\ KeepRow(ToDict(chunk, RawCells(Head(chunk.rows))))
    /\ LET row == RowDict(chunk, Head(chunk.rows))
           batch == Append(rows, row)
       IN /\ Len(batch) >= batch_size
          /\ store' = Upsert(store, batch)
          /\ total_inserted' = total_inserted + Len(batch)
          /\ flushed' = Append(flushed, batch)
          /\ kept' = Append(kept, row)
          /\ log' = Append(log, Stmt("upsert", TRUE, Len(batch)))
    /\ rows' = <<>>
    /\ chunk' = [chunk EXCEPT !.rows = Tail(chunk.rows)]
    /\ UNCHANGED <<kvars, fvars, runs, rvars, attempt, step, raised, prog, pc, driver, acquired, hdr, csv, pos, reported, chunk_size,
                   batch_size, constraints, prior>>

\* a failing upsert whose error is swallowed: the batch is dropped and the loop
\* goes on
CleanAppendFlushFailSwallowed ==
    /\ prog = "clean_load" /\ pc = "rows"
    /\ chunk.rows # <<>>
    /\ KeepRow(ToDict(chunk, RawCells(Head(chunk.rows))))
    /\ LET row == RowDict(chunk, Head(chunk.rows))
           batch == Append(rows, row)
       IN /\ Len(batch) >= batch_size
          /\ kept' = Append(kept, row)
          /\ log' = Append(log, Stmt("upsert", FALSE, Len(batch)))
    /\ rows' = <<>>
    /\ chunk' = [chunk EXCEPT !.rows = Tail(chunk.rows)]
    /\ UNCHANGED <<kvars, fvars, runs, rvars, attempt, step, raised, prog, pc, driver, acquired, hdr, csv, pos,
                   total_inserted, reported, chunk_size, batch_size, store, constraints,
                   prior, flushed>>

\* lines 119-149 when the upsert raises: nothing of the batch is stored, the
\* error leaves main
CleanAppendFlushFail ==
    /\ prog = "clean_load" /\ pc = "rows"
    /\ chunk.rows # <<>>
    /\ KeepRow(ToDict(chunk, RawCells(Head(chunk.rows))))
    /\ LET row == RowDict(chunk, Head(chunk.rows))
           batch == Append(rows, row)
       IN /\ Len(batch) >= batch_size
          /\ rows' = batch
          /\ kept' = Append(kept, row)
          /\ log' = Append(log, Stmt("upsert", FALSE, Len(batch)))
    /\ chunk' = [chunk EXCEPT !.rows = Tail(chunk.rows)]
    /\ pc' = "failed"
    /\ UNCHANGED <<kvars, fvars, runs, rvars, attempt, step, raised, prog, driver, acquired, hdr, csv, pos, total_inserted, reported,
                   chunk_size, batch_size, store, constraints, prior, flushed>>

\* the end of a chunk without the drain of lines 153-155: the rows left are
\* neither upserted nor counted
CleanDrainLost ==
    /\ prog = "clean_load" /\ pc = "rows"
    /\ chunk.rows = <<>>
    /\ rows # <<>>
    /\ pc' = "chunks"
    /\ UNCHANGED <<kvars, fvars, runs, rvars, attempt, step, raised, prog, driver, acquired, hdr, csv, pos,
                   chunk, rows, total_inserted, reported, chunk_size, batch_size, store,
                   constraints, prior, flushed, kept, log>>

\* lines 153-155: at the end of a chunk the rows left are upserted and counted;
\* the accumulator keeps them until the next chunk resets it
CleanDrain ==
    /\ prog = "clean_load" /\ pc = "rows"
    /\ chunk.rows = <<>>
    /\ rows # <<>>
    /\ store' = Upsert(store, rows)
    /\ total_inserted' = total_inserted + Len(rows)
    /\ flushed' = Append(flushed, rows)
    /\ log' = Append(log, Stmt("upsert", TRUE, Len(rows)))
    /\ pc' = "chunks"
    /\ UNCHANGED <<kvars, fvars, runs, rvars, attempt, step, raised, prog, driver, acquired, hdr, csv, pos, chunk, rows, reported, chunk_size,
                   batch_size, constraints, prior, kept>>

\* lines 153-154 when the upsert raises
CleanDrainFail ==
    /\ prog = "clean_load" /\ pc = "rows"
    /\ chunk.rows = <<>>
    /\ rows # <<>>
    /\ log' = Append(log, Stmt("upsert", FALSE, Len(rows)))
    /\ pc' = "failed"
    /\ UNCHANGED <<kvars, fvars, runs, rvars, attempt, step, raised, prog, driver, acquired, hdr, csv, pos, chunk, rows, total_inserted,
                   reported, chunk_size, batch_size, store, constraints, prior, flushed, kept>>

\* line 153 with an empty accumulator: nothing is sent
CleanEndChunk ==
    /\ prog = "clean_load" /\ pc = "rows"
    /\ chunk.rows = <<>>
    /\ rows = <<>>
    /\ pc' = "chunks"
    /\ UNCHANGED <<kvars, fvars, runs, rvars, attempt, step, raised, prog, driver, acquired, hdr, csv, pos, chunk, rows, total_inserted,
                   reported, chunk_size, batch_size, store, constraints, prior, flushed,
                   kept, log>>

\* the input is exhausted and the driver is closed, but main does not return
CleanFinishHangs ==
    /\ prog = "clean_load" /\ pc = "chunks"
    /\ pos = Len(csv)
    /\ driver' = "closed"
    /\ UNCHANGED <<kvars, fvars, runs, rvars, attempt, step, raised, prog, pc, acquired, hdr,
                   csv, pos, chunk, rows, total_inserted, reported, chunk_size, batch_size,
                   store, constraints, prior, flushed, kept, log>>

\* lines 157-158: the input is exhausted; the driver is closed and the total printed
CleanFinish ==
    /\ prog = "clean_load" /\ pc = "chunks"
    /\ pos = Len(csv)
    /\ driver' = "closed"
    /\ reported' = total_inserted
    /\ pc' = "done"
    /\ UNCHANGED <<kvars, fvars, runs, rvars, attempt, step, raised, prog, acquired, hdr, csv, pos, chunk, rows, total_inserted, chunk_size,
                   batch_size, store, constraints, prior, flushed, kept, log>>

CleanLoad ==
    \/ CleanGetDriver
    \/ CleanEnsureConstraint
    \/ CleanEnsureConstraintFail
    \/ CleanReadChunk
    \/ CleanSkipRow
    \/ CleanAppendRow
    \/ CleanAppendFlush
    \/ CleanAppendFlushFail
    \/ CleanDrain
    \/ CleanDrainFail
    \/ CleanEndChunk
    \/ CleanFinish

KeyInit ==
    /\ kpc = "first"
    /\ ktup \in KeyTuples
    /\ kvar \in TupleVariants(ktup)
    /\ kstyle \in KeyStyles
    /\ kres = Pending
    /\ kvarres = Pending

\* ------------------------------------------------------------------------
\* build_gold.main (lines 51-156) and wait_for_neo4j (lines 29-43)
\* ------------------------------------------------------------------------
GoldConstraints == <<"route_summary_unique", "daily_carrier_unique", "monthly_airport_unique">>

\* line 52: get_driver()
GoldGetDriver ==
    /\ prog = "build_gold" /\ pc = "start"
    /\ driver' = "open"
    /\ acquired' = acquired + 1
    /\ pc' = "wait"
    /\ UNCHANGED <<kvars, fvars, runs, rvars, prog, hdr, csv, pos, chunk, rows, total_inserted, reported,
                   chunk_size, batch_size, store, constraints, prior, flushed, kept, log,
                   attempt, step, raised>>

\* a failed connectivity check after which the loop ends as after a success
GoldVerifyFailReturns ==
    /\ prog = "build_gold" /\ pc = "wait"
    /\ attempt < WaitAttempts
    /\ attempt' = attempt + 1
    /\ checks' = Append(checks, "fail")
    /\ last_err' = "connect"
    /\ slept' = Append(slept, WaitSleep)
    /\ pc' = "count"
    /\ UNCHANGED <<kvars, fvars, runs, query, retries, error, answer, prog, driver, acquired, hdr,
                   csv, pos, chunk, rows, total_inserted, reported, chunk_size, batch_size,
                   store, constraints, prior, flushed, kept, log, step, raised>>

\* lines 31-35: a connectivity check succeeds; wait_for_neo4j returns
GoldVerifyOk ==
    /\ prog = "build_gold" /\ pc = "wait"
    /\ attempt < WaitAttempts
    /\ attempt' = attempt + 1
    /\ checks' = Append(checks, "ok")
    /\ pc' = "count"
    /\ UNCHANGED <<kvars, fvars, runs, query, retries, last_err, error, answer, slept, prog, driver, acquired, hdr, csv, pos, chunk, rows, total_inserted,
                   reported, chunk_size, batch_size, store, constraints, prior, flushed,
                   kept, log, step, raised>>

\* lines 31-38: a connectivity check fails; the error is kept, the loop sleeps
\* sleep_s and goes on
GoldVerifyFail ==
    /\ prog = "build_gold" /\ pc = "wait"
    /\ attempt < WaitAttempts
    /\ attempt' = attempt + 1
    /\ checks' = Append(checks, "fail")
    /\ last_err' = "connect"
    /\ slept' = Append(slept, WaitSleep)
    /\ UNCHANGED <<kvars, fvars, runs, query, retries, error, answer, prog, pc, driver, acquired, hdr, csv, pos, chunk, rows,
                   total_inserted, reported, chunk_size, batch_size, store, constraints,
                   prior, flushed, kept, log, step, raised>>

\* lines 41-43: every attempt failed; RuntimeError is raised
GoldWaitRaise ==
    /\ prog = "build_gold" /\ pc = "wait"
    /\ attempt = WaitAttempts
    /\ error' = "RuntimeError"
    /\ raised' = TRUE
    /\ pc' = "finally"
    /\ UNCHANGED <<kvars, fvars, runs, query, retries, last_err, answer, checks, slept, prog, driver, acquired, hdr, csv, pos, chunk, rows, total_inserted,
                   reported, chunk_size, batch_size, store, constraints, prior, flushed,
                   kept, log, attempt, step>>

\* lines 59-61: the count of CleanFlight nodes is read
GoldCount ==
    /\ prog = "build_gold" /\ pc = "count"
    /\ log' = Append(log, Stmt("count", TRUE, 0))
    /\ pc' = "constraints"
    /\ UNCHANGED <<kvars, fvars, runs, rvars, prog, driver, acquired, hdr, csv, pos, chunk, rows, total_inserted,
                   reported, chunk_size, batch_size, store, constraints, prior, flushed,
                   kept, attempt, step, raised>>

\* lines 64-89: the next of the three CREATE CONSTRAINT ... IF NOT EXISTS
GoldEnsureConstraint ==
    /\ prog = "build_gold" /\ pc = "constraints"
    /\ constraints' = constraints \cup {GoldConstraints[step]}
    /\ log' = Append(log, Stmt("constraint", TRUE, 0))
    /\ step' = step + 1
    /\ pc' = IF step = Len(GoldConstraints) THEN "route" ELSE "constraints"
    /\ UNCHANGED <<kvars, fvars, runs, rvars, prog, driver, acquired, hdr, csv, pos, chunk, rows, total_inserted,
                   reported, chunk_size, batch_size, store, prior, flushed, kept, attempt,
                   raised>>

\* lines 94-111: the RouteSummary statement
GoldRoute ==
    /\ prog = "build_gold" /\ pc = "route"
    /\ store' = route_summary(store)
    /\ log' = Append(log, Stmt("route", TRUE, 0))
    /\ pc' = "daily"
    /\ UNCHANGED <<kvars, fvars, runs, rvars, prog, driver, acquired, hdr, csv, pos, chunk, rows, total_inserted,
                   reported, chunk_size, batch_size, constraints, prior, flushed, kept,
                   attempt, step, raised>>

\* lines 114-130: the DailyCarrierSummary statement; date() reads every fl_date
GoldDaily ==
    /\ prog = "build_gold" /\ pc = "daily"
    /\ \A i \in DailySource(store) : DateParses(store[i].props["fl_date"])
    /\ store' = daily_carrier_summary(store)
    /\ log' = Append(log, Stmt("daily", TRUE, 0))
    /\ pc' = "monthly"
    /\ UNCHANGED <<kvars, fvars, runs, rvars, prog, driver, acquired, hdr, csv, pos, chunk, rows, total_inserted,
                   reported, chunk_size, batch_size, constraints, prior, flushed, kept,
                   attempt, step, raised>>

\* lines 133-153: the MonthlyAirportSummary statement; the try block ends
GoldMonthly ==
    /\ prog = "build_gold" /\ pc = "monthly"
    /\ \A i \in MonthlySource(store) : DateParses(store[i].props["fl_date"])
    /\ store' = monthly_airport_summary(store)
    /\ log' = Append(log, Stmt("monthly", TRUE, 0))
    /\ pc' = "finally"
    /\ UNCHANGED <<kvars, fvars, runs, rvars, prog, driver, acquired, hdr, csv, pos, chunk, rows, total_inserted,
                   reported, chunk_size, batch_size, constraints, prior, flushed, kept,
                   attempt, step, raised>>

\* a statement of lines 59-149 raises (the store fails, or date() cannot read
\* an fl_date): nothing of it is stored and the error goes to the finally
GoldStatementFail ==
    /\ prog = "build_gold" /\ pc \in {"count", "constraints", "route", "daily", "monthly"}
    /\ log' = Append(log, Stmt(pc, FALSE, 0))
    /\ raised' = TRUE
    /\ pc' = "finally"
    /\ UNCHANGED <<kvars, fvars, runs, rvars, prog, driver, acquired, hdr, csv, pos, chunk, rows, total_inserted,
                   reported, chunk_size, batch_size, store, constraints, prior, flushed,
                   kept, attempt, step>>

\* lines 155-156: finally: driver.close(), then the error, if any, leaves main
GoldFinally ==
    /\ prog = "build_gold" /\ pc = "finally"
    /\ driver' = "closed"
    /\ pc' = IF raised THEN "failed" ELSE "done"
    /\ UNCHANGED <<kvars, fvars, runs, rvars, prog, acquired, hdr, csv, pos, chunk, rows, total_inserted,
                   reported, chunk_size, batch_size, store, constraints, prior, flushed,
                   kept, log, attempt, step, raised>>

\* line 161 once more: the program is run again on the store as it left it
GoldRunAgain ==
    /\ prog = "build_gold" /\ pc = "done"
    /\ runs < MaxReruns
    /\ runs' = runs + 1
    /\ pc' = "start"
    /\ driver' = "none"
    /\ acquired' = 0
    /\ attempt' = 0
    /\ step' = 1
    /\ log' = <<>>
    /\ checks' = <<>>
    /\ slept' = <<>>
    /\ last_err' = "none"
    /\ UNCHANGED <<kvars, fvars, query, retries, error, answer, prog, hdr, csv, pos, chunk,
                   rows, total_inserted, reported, chunk_size, batch_size, store,
                   constraints, prior, flushed, kept, raised>>

BuildGold ==
    \/ GoldRunAgain
    \/ GoldGetDriver
    \/ GoldVerifyOk
    \/ GoldVerifyFail
    \/ GoldWaitRaise
    \/ GoldCount
    \/ GoldEnsureConstraint
    \/ GoldRoute
    \/ GoldDaily
    \/ GoldMonthly
    \/ GoldStatementFail
    \/ GoldFinally

\* ------------------------------------------------------------------------
\* setup_schema.main (lines 3-15)
\* ------------------------------------------------------------------------
\* QUERIES (lines 3-7), by the constraint each one creates
SetupQueries == <<"airport_code_unique", "carrier_code_unique", "flight_flight_id_unique">>

\* line 10: get_driver()
SetupGetDriver ==
    /\ prog = "setup_schema" /\ pc = "start"
    /\ driver' = "open"
    /\ acquired' = acquired + 1
    /\ pc' = "queries"
    /\ UNCHANGED <<kvars, fvars, runs, rvars, prog, hdr, csv, pos, chunk, rows, total_inserted, reported,
                   chunk_size, batch_size, store, constraints, prior, flushed, kept, log,
                   attempt, step, raised>>

\* lines 12-13: the next query of the list is run
SetupRunQuery ==
    /\ prog = "setup_schema" /\ pc = "queries"
    /\ step <= Len(SetupQueries)
    /\ constraints' = constraints \cup {SetupQueries[step]}
    /\ log' = Append(log, Stmt("constraint", TRUE, 0))
    /\ step' = step + 1
    /\ UNCHANGED <<kvars, fvars, runs, rvars, prog, pc, driver, acquired, hdr, csv, pos, chunk, rows,
                   total_inserted, reported, chunk_size, batch_size, store, prior, flushed,
                   kept, attempt, raised>>

\* lines 12-13 when the store raises: the error leaves main, line 14 is not reached
SetupRunQueryFail ==
    /\ prog = "setup_schema" /\ pc = "queries"
    /\ step <= Len(SetupQueries)
    /\ log' = Append(log, Stmt("constraint", FALSE, 0))
    /\ pc' = "failed"
    /\ UNCHANGED <<kvars, fvars, runs, rvars, prog, driver, acquired, hdr, csv, pos, chunk, rows, total_inserted,
                   reported, chunk_size, batch_size, store, constraints, prior, flushed,
                   kept, attempt, step, raised>>

\* lines 14-15: every query ran; the driver is closed
SetupFinish ==
    /\ prog = "setup_schema" /\ pc = "queries"
    /\ step > Len(SetupQueries)
    /\ driver' = "closed"
    /\ pc' = "done"
    /\ UNCHANGED <<kvars, fvars, runs, rvars, prog, acquired, hdr, csv, pos, chunk, rows, total_inserted,
                   reported, chunk_size, batch_size, store, constraints, prior, flushed,
                   kept, log, attempt, step, raised>>

SetupSchema ==
    \/ SetupGetDriver
    \/ SetupRunQuery
    \/ SetupRunQueryFail
    \/ SetupFinish

\* ------------------------------------------------------------------------
\* run_query of the dashboard (viz/app.py, lines 33-52)
\* ------------------------------------------------------------------------
\* a call run_query(q, params, retries): nothing tried yet
QueryInit ==
    /\ query \in Queries
    /\ retries \in (0..MaxRetries) \cup {DefaultRetries}
    /\ last_err = "none" /\ error = "none"
    /\ answer = None /\ checks = <<>> /\ slept = <<>>

\* line 39: get_driver()
QueryGetDriver ==
    /\ prog = "run_query" /\ pc = "start"
    /\ driver' = "open"
    /\ acquired' = acquired + 1
    /\ pc' = "loop"
    /\ UNCHANGED <<kvars, fvars, runs, rvars, prog, hdr, csv, pos, chunk, rows, total_inserted,
                   reported, chunk_size, batch_size, store, constraints, prior, flushed,
                   kept, log, attempt, step, raised>>

\* lines 42-47: an attempt succeeds; its frame is returned
QueryAttemptOk ==
    /\ prog = "run_query" /\ pc = "loop"
    /\ attempt < retries
    /\ attempt' = attempt + 1
    /\ checks' = Append(checks, "ok")
    /\ log' = Append(log, Stmt("query", TRUE, 0))
    /\ answer' = QueryFrame(query, store)
    /\ pc' = "returned"
    /\ UNCHANGED <<kvars, fvars, runs, query, retries, last_err, error, slept, prog, driver,
                   acquired, hdr, csv, pos, chunk, rows, total_inserted, reported,
                   chunk_size, batch_size, store, constraints, prior, flushed, kept, step,
                   raised>>

\* lines 42-50: an attempt raises ServiceUnavailable; the error is kept, the
\* loop sleeps sleep_s and goes on
QueryAttemptUnavailable ==
    /\ prog = "run_query" /\ pc = "loop"
    /\ attempt < retries
    /\ attempt' = attempt + 1
    /\ checks' = Append(checks, "unavailable")
    /\ log' = Append(log, Stmt("query", FALSE, 0))
    /\ last_err' = "ServiceUnavailable"
    /\ slept' = Append(slept, QuerySleep)
    /\ UNCHANGED <<kvars, fvars, runs, query, retries, error, answer, prog, pc, driver, acquired,
                   hdr, csv, pos, chunk, rows, total_inserted, reported, chunk_size,
                   batch_size, store, constraints, prior, flushed, kept, step, raised>>

\* an attempt that raises another error, caught and retried like ServiceUnavailable
QueryAttemptErrorRetried ==
    /\ prog = "run_query" /\ pc = "loop"
    /\ attempt < retries
    /\ attempt' = attempt + 1
    /\ checks' = Append(checks, "other")
    /\ log' = Append(log, Stmt("query", FALSE, 0))
    /\ last_err' = "other"
    /\ slept' = Append(slept, QuerySleep)
    /\ UNCHANGED <<kvars, fvars, runs, query, retries, error, answer, prog, pc, driver, acquired,
                   hdr, csv, pos, chunk, rows, total_inserted, reported, chunk_size,
                   batch_size, store, constraints, prior, flushed, kept, step, raised>>

\* lines 42-48: an attempt raises an error that is no ServiceUnavailable: no
\* except clause takes it and it leaves run_query
QueryAttemptError ==
    /\ prog = "run_query" /\ pc = "loop"
    /\ attempt < retries
    /\ attempt' = attempt + 1
    /\ checks' = Append(checks, "other")
    /\ log' = Append(log, Stmt("query", FALSE, 0))
    /\ error' = "other"
    /\ pc' = "raised"
    /\ UNCHANGED <<kvars, fvars, runs, query, retries, last_err, answer, slept, prog, driver,
                   acquired, hdr, csv, pos, chunk, rows, total_inserted, reported,
                   chunk_size, batch_size, store, constraints, prior, flushed, kept, step,
                   raised>>

\* line 52: the loop ran out; RuntimeError is raised from the last error
QueryExhausted ==
    /\ prog = "run_query" /\ pc = "loop"
    /\ attempt >= retries
    /\ error' = "RuntimeError"
    /\ pc' = "raised"
    /\ UNCHANGED <<kvars, fvars, runs, query, retries, last_err, answer, checks, slept, prog,
                   driver, acquired, hdr, csv, pos, chunk, rows, total_inserted, reported,
                   chunk_size, batch_size, store, constraints, prior, flushed, kept, log,
                   attempt, step, raised>>

RunQuery ==
    \/ QueryGetDriver
    \/ QueryAttemptOk
    \/ QueryAttemptUnavailable
    \/ QueryAttemptError
    \/ QueryExhausted

\* ------------------------------------------------------------------------
\* CleanFlight (models/clean_flight.py)
\* ------------------------------------------------------------------------
FieldOk(v) == [ok |-> TRUE, err |-> "", val |-> v]

FieldError(kind) == [ok |-> FALSE, err |-> kind, val |-> None]

\* validate_crs_dep_time with the range test alone
validate_crs_dep_time_no_minutes(v) ==
    IF v.t # "int" THEN FieldError("type")
    ELSE IF v.n < 0 \/ v.n > 2359 THEN FieldError("range")
    ELSE FieldOk(v)

\* validate_crs_dep_time (lines 35-48, 65-72), after the int type of the field:
\* a value that is no integer, one outside 0..2359, one whose minutes are 60
\* or more is an error; any other is returned as it is
validate_crs_dep_time(v) ==
    IF v.t # "int" THEN FieldError("type")
    ELSE IF v.n < 0 \/ v.n > 2359 THEN FieldError("range")
    ELSE IF v.n % 100 >= 60 THEN FieldError("minutes")
    ELSE FieldOk(v)

\* normalize_codes without the strip
normalize_codes_no_strip(v2, v) ==
    IF v.t = "none" THEN FieldError("null")
    ELSE IF v2 /\ v.t # "str" THEN FieldError("type")
    ELSE LET s == Upper(Str(v))
         IN IF Len(s) = 0 THEN FieldError("empty") ELSE FieldOk(PyStr(s))

\* normalize_codes (lines 52-58, 75-81) with the str type of the field. Under
\* pydantic 2 the validator runs after the type (None and numbers are type
\* errors); under pydantic 1 it runs before it (pre=True) and takes str(v)
normalize_codes(v2, v) ==
    IF v.t = "none" THEN FieldError("null")
    ELSE IF v2 /\ v.t # "str" THEN FieldError("type")
    ELSE LET s == Upper(Strip(Str(v)))
         IN IF Len(s) = 0 THEN FieldError("empty") ELSE FieldOk(PyStr(s))

CodeFields == {"carrier", "origin", "dest"}

\* the outcome of validating field f of the values given
FieldResult(v2, given, f) ==
    IF f \in CodeFields THEN normalize_codes(v2, given[f])
    ELSE IF f = "crs_dep_time" THEN validate_crs_dep_time(given[f])
    ELSE FieldOk(given[f])

\* CleanFlight(**given): every field is validated; one error or more and a
\* ValidationError is raised with them all, and there is no record
CleanFlight(v2, given) ==
    LET res == [f \in DOMAIN given |-> FieldResult(v2, given, f)]
        bad == {f \in DOMAIN given : ~res[f].ok}
    IN IF bad # {}
       THEN [ok |-> FALSE, errs |-> {<<f, res[f].err>> : f \in bad}, rec |-> None]
       ELSE [ok |-> TRUE, errs |-> {}, rec |-> [f \in DOMAIN given |-> res[f].val]]

\* the field values of tests/test_validation.py, lines 6-18
ValidFlight ==
    [flight_id |-> PyStr(<<"x">>), fl_date |-> PyDate(20200101),
     carrier |-> PyStr(<<"A", "A">>), origin |-> PyStr(<<"E">>), dest |-> PyStr(<<"J">>),
     crs_dep_time |-> PyInt(900), dep_delay |-> PyFloat(50), arr_delay |-> PyFloat(30),
     cancelled |-> PyInt(0), diverted |-> PyInt(0), distance |-> PyFloat(200)]

\* the codes tried: every text, None, a number
FlightCodeVals == {PyStr(s) : s \in Codes} \cup {None, PyInt(7)}

\* the times tried, around the hour and minute limits
FlightTimes == {PyInt(n) : n \in {-1, 0, 59, 60, 99, 900, 1259, 1260, 2359, 2360, 2400, 9999}}
               \cup {None}

\* the valid flight with one code and the time replaced
FlightInputs ==
    {[[ValidFlight EXCEPT ![f] = c] EXCEPT !.crs_dep_time = tm] :
        f \in CodeFields, c \in FlightCodeVals, tm \in FlightTimes}

FlightInit ==
    /\ fpc = "new"
    /\ pydantic_v2 \in BOOLEAN
    /\ fin \in FlightInputs
    /\ fout = None
    /\ fagain = None

\* CleanFlight(**fin)
Construct ==
    /\ fpc = "new"
    /\ fout' = CleanFlight(pydantic_v2, fin)
    /\ fpc' = "built"
    /\ UNCHANGED <<lvars, kvars, rvars, pydantic_v2, fin, fagain>>

\* the constructed record's fields are validated again
Revalidate ==
    /\ fpc = "built"
    /\ fout.ok
    /\ fagain' = CleanFlight(pydantic_v2, fout.rec)
    /\ fpc' = "again"
    /\ UNCHANGED <<lvars, kvars, rvars, pydantic_v2, fin, fout>>

FlightNext == Construct \/ Revalidate

\* ------------------------------------------------------------------------
\* Calls of build_flight_id
\* ------------------------------------------------------------------------
\* the first call: build_flight_id on the tuple
CallFirst ==
    /\ kpc = "first"
    /\ kres' = build_flight_id(MakeCall(ktup, kstyle))
    /\ kpc' = "second"
    /\ UNCHANGED <<lvars, fvars, rvars, ktup, kvar, kstyle, kvarres>>

\* the second call: build_flight_id on the re-cased, re-padded tuple
CallSecond ==
    /\ kpc = "second"
    /\ kvarres' = build_flight_id(MakeCall(kvar, kstyle))
    /\ kpc' = "called"
    /\ UNCHANGED <<lvars, fvars, rvars, ktup, kvar, kstyle, kres>>

KeyNext == CallFirst \/ CallSecond

Init ==
    /\ LoaderInit /\ KeyParked /\ FlightParked
    /\ \/ prog # "run_query" /\ RetryInit
       \/ prog = "run_query" /\ QueryInit

Next == CleanLoad \/ BuildGold \/ SetupSchema \/ RunQuery

Spec == Init /\ [][Next]_vars

KeyStart == KeyInit /\ LoaderParked /\ FlightParked /\ RetryInit

SpecKey == KeyStart /\ [][KeyNext]_vars

\* the clean loader before it is started on a file
LoadIdle ==
    /\ prog = "clean_load" /\ pc = "idle" /\ driver = "none" /\ acquired = 0
    /\ hdr = [upper |-> FALSE, pad |-> FALSE] /\ csv = <<>> /\ pos = 0 /\ chunk = NoFrame
    /\ rows = <<>> /\ total_inserted = 0 /\ reported = -1 /\ chunk_size = 1
    /\ batch_size = 1 /\ store = <<>> /\ constraints = {} /\ prior = <<>>
    /\ flushed = <<>> /\ kept = <<>> /\ log = <<>>
    /\ attempt = 0 /\ step = 1 /\ raised = FALSE /\ runs = 0
    /\ KeyParked /\ FlightParked /\ RetryInit

\* lines 161-164 and 87-103: main is called on a file, with the sizes of the
\* environment and the store as an earlier run left it
LoadBegin ==
    /\ prog = "clean_load" /\ pc = "idle"
    /\ hdr' \in HeaderStyles
    /\ csv' \in SeqsUpTo(RawRows, MaxRows)
    /\ chunk_size' \in 1..MaxChunk
    /\ batch_size' \in 1..MaxBatch
    /\ \E s \in InitStores :
          store' = s.store /\ constraints' = s.constraints /\ prior' = s.prior
    /\ pc' = "start"
    /\ UNCHANGED <<kvars, fvars, runs, rvars, attempt, step, raised, prog, driver, acquired,
                   pos, chunk, rows, total_inserted, reported, flushed, kept, log>>

LoadNext == LoadBegin \/ CleanLoad

\* a clean load on its own: main runs to its end, each step following the
\* last while there is one to take
SpecLoad == LoadIdle /\ [][LoadNext]_vars /\ WF_vars(LoadNext)

FlightStart == FlightInit /\ LoaderParked /\ KeyParked /\ RetryInit

SpecFlight == FlightStart /\ [][FlightNext]_vars

\* ------------------------------------------------------------------------
\* Properties
\* ------------------------------------------------------------------------
RECURSIVE Flatten(_)
\* the rows of a sequence of batches, in order
Flatten(batches) == IF batches = <<>> THEN <<>> ELSE Head(batches) \o Flatten(Tail(batches))

Range(q) == {q[i] : i \in 1..Len(q)}

\* a cell that holds a value with a character that is not a blank
NonBlankCell(v) ==
    /\ v.t \notin {"absent", "nan", "none"}
    /\ \E i \in 1..Len(Str(v)) : Str(v)[i] \notin Whitespace

\* the data row has a usable origin and a usable dest under some alias
Resolves(name) ==
    /\ \E k \in Range(OriginAliases) : NonBlankCell(RawCells(name)[k])
    /\ \E k \in Range(DestAliases) : NonBlankCell(RawCells(name)[k])

\* the data rows the loop has visited
Visited == SubSeq(csv, 1, pos - Len(chunk.rows))

\* the store the run started from
StartStore == UpsertAll(<<>>, prior)

\* the flight_id values of a sequence of batches
IdsOf(batches) == {r.flight_id : r \in Range(Flatten(batches))}

CleanFlightNodes == {i \in 1..Len(store) : "CleanFlight" \in store[i].labels}

CleanDone == prog = "clean_load" /\ pc = "done"

\* C1 as stated: when the clean loader finishes, the flushed batches hold every
\* kept row exactly once, in order, and the accumulator is empty.
C1_AccumulatorEmptyAtEnd ==
    CleanDone => Flatten(flushed) = kept /\ rows = <<>>

\* C1, amended: when the clean loader finishes, the flushed batches hold every
\* kept row exactly once, in order, and the accumulator holds no unflushed row:
\* it is empty or still holds the batch the last drain flushed.
C1_NoRowLost ==
    CleanDone =>
        /\ Flatten(flushed) = kept
        /\ Len(kept) = Cardinality({i \in 1..Len(csv) : Resolves(csv[i])})
        /\ rows = <<>> \/ (flushed # <<>> /\ rows = flushed[Len(flushed)])

\* a finished run whose last chunk ended with a partial batch, after a full one
C1_Witness ==
    /\ CleanDone
    /\ Len(flushed) >= 2
    /\ rows # <<>>
    /\ Len(rows) < batch_size

\* C2: on a successful run the reported total is the number of input rows whose
\* origin and dest both resolve to a non-null, non-blank value.
C2_ReportedTotal ==
    CleanDone => reported = Cardinality({i \in 1..Len(csv) : Resolves(csv[i])})

\* three input rows, one of them without dest, two reported
C2_Witness ==
    /\ CleanDone
    /\ Len(csv) = 3
    /\ Cardinality({i \in 1..3 : csv[i] = "nodest"}) = 1
    /\ \A i \in 1..3 : csv[i] # "nodest" => Resolves(csv[i])
    /\ reported = 2

\* the row dict the loop builds for a data row of the file
BuiltFrom(name) == BuildRow(ToDict(norm_cols(Frame(hdr, <<>>)), RawCells(name)))

\* the kept rows are the rows built from the visited data rows that resolve,
\* in order, and the flushed rows are the first of them
KeptAreResolved ==
    LET ok == SelectSeq(Visited, Resolves)
        sent == Flatten(flushed)
    IN /\ kept = [i \in 1..Len(ok) |-> BuiltFrom(ok[i])]
       /\ Len(sent) <= Len(kept)
       /\ sent = SubSeq(kept, 1, Len(sent))

\* C3: the step over a row whose origin or dest does not resolve changes neither
\* the accumulator, the running total, the store nor the flushed batches, sends
\* nothing, raises nothing and goes on with the next row; the rows kept and
\* flushed are only ever rows that resolve.
C3_DroppedRow ==
    /\ [](prog = "clean_load" => KeptAreResolved)
    /\ [][(/\ prog = "clean_load" /\ pc = "rows"
           /\ chunk.rows # <<>>
           /\ ~Resolves(Head(chunk.rows)))
          => /\ UNCHANGED <<rows, total_inserted, store, flushed, kept, log>>
             /\ pc' = "rows"
             /\ chunk'.rows = Tail(chunk.rows)]_vars

\* a run that passed over a row and later flushed a batch
C3_Witness ==
    /\ prog = "clean_load"
    /\ Len(Visited) > Len(kept)
    /\ flushed # <<>>
    /\ pc = "done"

\* the batches a state knows: flushed by this run, by earlier ones, and the
\* accumulator's content
KnownBatches == Range(flushed) \cup Range(prior) \cup {rows}

\* C4: flushing a batch a second time leaves the store as the first flush left
\* it, from the store of any reachable state and from the empty store.
C4_UpsertIdempotent ==
    \A b \in KnownBatches :
        /\ Upsert(Upsert(store, b), b) = Upsert(store, b)
        /\ Upsert(Upsert(<<>>, b), b) = Upsert(<<>>, b)
        /\ Len(Upsert(Upsert(<<>>, b), b)) = Len(Upsert(<<>>, b))

\* a flushed batch of two different rows with one flight_id, which the store
\* held before the run
C4_Witness ==
    /\ prog = "clean_load"
    /\ prior # <<>>
    /\ \E b \in Range(flushed) :
          /\ Len(b) = 2
          /\ b[1].flight_id = b[2].flight_id
          /\ b[1] # b[2]
          /\ \E i \in CleanFlightNodes : store[i].props["flight_id"] = b[1].flight_id

\* C5: the store holds at most one CleanFlight entity per flight_id, and its
\* CleanFlight entities are exactly the flight_id values flushed so far (by
\* this run and the earlier ones), so none was removed.
C5_OneEntityPerFlightId ==
    /\ \A i, j \in CleanFlightNodes :
          store[i].props["flight_id"] = store[j].props["flight_id"] => i = j
    /\ {store[i].props["flight_id"] : i \in CleanFlightNodes} = IdsOf(prior \o flushed)
    /\ Cardinality(CleanFlightNodes) = Cardinality(IdsOf(prior \o flushed))

\* a finished run that flushed one flight_id more than once, in two batches
C5_Witness ==
    /\ CleanDone
    /\ Len(flushed) >= 2
    /\ Len(kept) > Cardinality(IdsOf(flushed))
    /\ Cardinality(CleanFlightNodes) >= 2

\* the statement at position i of the log is a batch upsert
IsUpsert(i) == log[i].stmt = "upsert"

\* C6: a batch upsert is sent only after the constraint statement succeeded,
\* and a constraint statement met by the constraint changes neither the
\* constraints nor the data; it can succeed whether the constraint exists or not.
C6_ConstraintFirst ==
    [][/\ (prog = "clean_load" /\ pc = "constraint") => ENABLED CleanEnsureConstraint
       /\ (prog = "clean_load" /\ Len(log') > Len(log) /\ log'[Len(log')].stmt = "upsert")
          => (log # <<>> /\ log[1] = Stmt("constraint", TRUE, 0))
       /\ (prog = "clean_load" /\ Len(log') > Len(log)
           /\ log'[Len(log')] = Stmt("constraint", TRUE, 0))
          => /\ store' = store
             /\ "cleanflight_fid" \in constraints'
             /\ "cleanflight_fid" \in constraints => constraints' = constraints]_vars

\* a run that found the constraint in place, ensured it and flushed a batch
C6_Witness ==
    /\ prog = "clean_load"
    /\ prior # <<>>
    /\ Len(log) >= 2
    /\ log[1] = Stmt("constraint", TRUE, 0)
    /\ log[2].stmt = "upsert" /\ log[2].ok

\* C7: a failed statement is the last one of the run: the run is over, nothing
\* was retried or sent after it, no total is reported, and the store holds the
\* effect of the batches flushed before it and nothing else.
C7_AbortOnFailure ==
    prog = "clean_load" =>
        /\ \A i \in 1..Len(log) : ~log[i].ok => (i = Len(log) /\ pc = "failed")
        /\ pc = "failed" =>
              /\ ~log[Len(log)].ok
              /\ ~ENABLED Next
              /\ reported = -1
              /\ Len(flushed) = Cardinality({i \in 1..Len(log) : IsUpsert(i)})
                                - (IF IsUpsert(Len(log)) THEN 1 ELSE 0)
              /\ store = UpsertAll(StartStore, flushed)

\* a run whose third upsert failed
C7_Witness ==
    /\ prog = "clean_load" /\ pc = "failed"
    /\ Len(flushed) = 2
    /\ IsUpsert(Len(log))
    /\ store # StartStore

\* C8 as stated: at the end of every run, successful or failed, the driver was
\* acquired once and has been closed.
C8_DriverReleased ==
    pc \in {"done", "failed"} => (acquired = 1 /\ driver = "closed")

\* a tuple build_flight_id has the five values of: none is null, the codes and
\* the date are not blank, the time reads as a number
ValidTuple(tup) ==
    /\ \A f \in {"carrier", "origin", "dest"} : NonBlankCell(tup[f])
    /\ tup.date.t = "date" \/ NonBlankCell(tup.date)
    /\ IntFloatOk(tup.crs)

\* C9: build_flight_id gives the same outcome, and when it returns the same
\* key, for a valid tuple and for the tuple with a code in another letter case
\* or with other blanks around it.
C9_KeyDeterminism ==
    (kpc = "called" /\ ValidTuple(ktup)) => kres = kvarres

\* two calls that returned a key, the second on a differently written tuple
C9_Witness ==
    /\ kpc = "called"
    /\ ValidTuple(ktup)
    /\ kvar.carrier # ktup.carrier
    /\ kres.ok /\ kvarres.ok

\* the key ends in a dash and exactly four digits, after three "|" separators
KeyShape(k) ==
    /\ Len(k) >= 5
    /\ k[Len(k) - 4] = "-"
    /\ \A i \in (Len(k) - 3)..Len(k) : IsDigit(k[i])
    /\ Cardinality({i \in 1..(Len(k) - 5) : k[i] = "|"}) = 3

NullAfterLookup(call) ==
    IF call.conv = "pos"
    THEN \E v \in {call.fl_date, call.carrier, call.origin, call.dest, call.crs_dep_time} :
            v.t \in {"none", "absent"}
    ELSE \E keys \in {DateKeys, CarrierKeys, OriginKeys, DestKeys, CrsKeys} :
            \A i \in 1..Len(keys) : call.row[keys[i]].t \in {"none", "absent"}

\* C11: a call of build_flight_id, in either call style, in which one of the
\* five required values is absent or None after the alias lookup ends in an
\* error and returns no key.
C11_MissingFieldFails ==
    (kpc \in {"second", "called"} /\ NullAfterLookup(MakeCall(ktup, kstyle))) =>
        /\ ~kres.ok
        /\ kres.err \in {"missing", "type"}
        /\ kres.key = <<>>

\* a mapping call without carrier that raised, and the four other values present
C11_Witness ==
    /\ kpc = "called"
    /\ kstyle.conv = "row"
    /\ ktup.carrier.t \in {"none", "absent"}
    /\ \A f \in {"date", "origin", "dest", "crs"} : ktup[f].t \notin {"none", "absent"}
    /\ kres = KeyError("missing")

\* the HHMM encodings of a time of day
TimeValid(n) == n >= 0 /\ n <= 2359 /\ n % 100 < 60

\* C12: an integer crs_dep_time passes its validation exactly when it is in
\* 0..2359 with minutes below 60; with the other fields valid the record is
\* then constructed and holds the value as given, and otherwise there is a
\* validation error and no record.
C12_TimeValidation ==
    (fpc \in {"built", "again"} /\ fin.crs_dep_time.t = "int") =>
        LET n == fin.crs_dep_time.n
            timeErr == \E e \in fout.errs : e[1] = "crs_dep_time"
            codesOk == \A e \in fout.errs : e[1] \notin CodeFields
        IN /\ timeErr <=> ~TimeValid(n)
           /\ codesOk => (fout.ok <=> TimeValid(n))
           /\ fout.ok => fout.rec.crs_dep_time = PyInt(n)
           /\ ~fout.ok => fout.rec = None

\* the construction with time 2360, refused for the time alone
C12_Witness ==
    /\ fpc = "built"
    /\ fin.crs_dep_time = PyInt(2360)
    /\ fout = [ok |-> FALSE, errs |-> {<<"crs_dep_time", "range">>}, rec |-> None]

\* a code in its normal form: a text that is not empty, has no blank at
\* either end and no lower-case letter
Normalized(v) ==
    /\ v.t = "str" /\ v.s # <<>>
    /\ v.s[1] \notin Whitespace /\ v.s[Len(v.s)] \notin Whitespace
    /\ \A i \in 1..Len(v.s) : UpperChar(v.s[i]) = v.s[i]

\* C13: a constructed CleanFlight has carrier, origin and dest equal to the
\* trimmed, upper-cased input and not empty; a code that is None or blank
\* makes the construction fail with no record; a record whose codes are in
\* normal form comes out as it went in, the constructed record included.
C13_CodeNormalization ==
    fpc \in {"built", "again"} =>
        /\ fout.ok => \A f \in CodeFields :
              /\ fout.rec[f] = PyStr(Upper(Strip(Str(fin[f]))))
              /\ Normalized(fout.rec[f])
        /\ (\E f \in CodeFields : fin[f].t = "none" \/ ~NonBlankCell(fin[f])) =>
              (~fout.ok /\ fout.rec = None)
        /\ ((\A f \in CodeFields : Normalized(fin[f])) /\ fout.ok) => fout.rec = fin
        /\ fpc = "again" => fagain = fout

\* a record built from a lower-case, padded carrier and validated again
C13_Witness ==
    /\ fpc = "again"
    /\ fin.carrier = PyStr(<<" ", "a">>)
    /\ fout.ok /\ fout.rec.carrier = PyStr(<<"A">>)
    /\ fagain.ok

\* C14: wait_for_neo4j makes at most WaitAttempts connectivity checks and always
\* has a next step while it waits; it returns at the first check that succeeds
\* and checks no more; it raises RuntimeError exactly when all WaitAttempts
\* checks failed; and it sleeps the same sleep_s after every failed check.
C14_WaitBounded ==
    prog = "build_gold" =>
        /\ Len(checks) = attempt /\ attempt <= WaitAttempts
        /\ pc = "wait" => /\ \A i \in 1..attempt : checks[i] = "fail"
                          /\ ENABLED BuildGold
        /\ pc \notin {"start", "wait"} =>
              /\ error = "RuntimeError" <=>
                    (attempt = WaitAttempts /\ \A i \in 1..attempt : checks[i] = "fail")
              /\ error # "RuntimeError" =>
                    /\ attempt >= 1 /\ checks[attempt] = "ok"
                    /\ \A i \in 1..(attempt - 1) : checks[i] = "fail"
        /\ Len(slept) = Cardinality({i \in 1..attempt : checks[i] = "fail"})
        /\ \A i \in 1..Len(slept) : slept[i] = WaitSleep

\* a run whose third connectivity check succeeded and that went on to its end
C14_Witness ==
    /\ prog = "build_gold" /\ pc = "done"
    /\ checks = <<"fail", "fail", "ok">>
    /\ slept = <<WaitSleep, WaitSleep>>

\* C15: run_query makes at most `retries` attempts; it returns the frame of the
\* first attempt that succeeds and tries no more; every attempt before the
\* last one made ended in ServiceUnavailable; an attempt that ends in another
\* error is the last and that error leaves run_query; RuntimeError is raised
\* exactly when all `retries` attempts ended in ServiceUnavailable.
C15_QueryRetries ==
    prog = "run_query" =>
        /\ Len(checks) = attempt /\ attempt <= retries
        /\ \A i \in 1..(attempt - 1) : checks[i] = "unavailable"
        /\ pc = "loop" => /\ \A i \in 1..attempt : checks[i] = "unavailable"
                          /\ answer = None /\ error = "none"
                          /\ ENABLED RunQuery
        /\ pc = "returned" => /\ checks[attempt] = "ok"
                              /\ answer = QueryFrame(query, store)
                              /\ error = "none"
        /\ pc = "raised" =>
              /\ answer = None
              /\ error = "other" <=> (attempt >= 1 /\ checks[attempt] = "other")
              /\ error = "RuntimeError" <=>
                    (attempt = retries /\ \A i \in 1..attempt : checks[i] = "unavailable")
        /\ pc \in {"returned", "raised"} => ~ENABLED RunQuery
        /\ Len(slept) = Cardinality({i \in 1..attempt : checks[i] = "unavailable"})
        /\ \A i \in 1..Len(slept) : slept[i] = QuerySleep

\* the default call whose third attempt gave the frame, after two
\* ServiceUnavailable errors
C15_Witness ==
    /\ prog = "run_query" /\ pc = "returned"
    /\ retries = DefaultRetries
    /\ checks = <<"unavailable", "unavailable", "ok">>
    /\ answer # None

\* the store after the three aggregate statements
GoldAll(st) == monthly_airport_summary(daily_carrier_summary(route_summary(st)))

\* the nodes of st with this label
Labelled(st, label) == {i \in 1..Len(st) : label \in st[i].labels}

\* every group of the flights F has exactly one node labelled label whose key
\* properties are the group's, with flights the size of the group, and there
\* is no other node with this label; keyOf[f] is the group key of flight f
OnePerGroup(st, label, F, keyOf) ==
    LET S == Labelled(st, label)
        Is(s, f) == \A k \in DOMAIN keyOf[f] : st[s].props[k] = keyOf[f][k]
    IN /\ \A f \in F :
             /\ Cardinality({s \in S : Is(s, f)}) = 1
             /\ \A s \in S : Is(s, f) =>
                   st[s].props["flights"]
                   = PyInt(Cardinality({g \in F : keyOf[g] = keyOf[f]}))
       /\ \A s \in S : \E f \in F : Is(s, f)

\* C16: a gold build that ends without error, the first or a later one over
\* the same flights, leaves the flights as they were and the summaries of one
\* build: one RouteSummary, DailyCarrierSummary and MonthlyAirportSummary per
\* group key, its flights the number of flights of the group.
C16_GoldIdempotent ==
    (prog = "build_gold" /\ pc = "done") =>
        LET base == Upsert(<<>>, prior[1])
        IN /\ store = GoldAll(base)
           /\ SubSeq(store, 1, Len(base)) = base
           /\ OnePerGroup(store, "RouteSummary", RouteSource(base),
                          [i \in RouteSource(base) |->
                             [origin |-> base[i].props["origin"],
                              dest |-> base[i].props["dest"]]])
           /\ OnePerGroup(store, "DailyCarrierSummary", DailySource(base),
                          [i \in DailySource(base) |->
                             [carrier |-> base[i].props["op_carrier"],
                              date |-> CypherDate(base[i].props["fl_date"])]])
           /\ OnePerGroup(store, "MonthlyAirportSummary", MonthlySource(base),
                          [i \in MonthlySource(base) |->
                             [airport |-> base[i].props["origin"],
                              month |-> MonthOf(CypherDate(base[i].props["fl_date"]))]])

\* a second build over two flights of one route, ended
C16_Witness ==
    /\ prog = "build_gold" /\ pc = "done"
    /\ runs = 1
    /\ \E i \in Labelled(store, "RouteSummary") : store[i].props["flights"] = PyInt(2)

\* the five values the key is said to be made of, as the loader stores them
FiveValues(r) == <<r.fl_date, r.op_carrier, r.origin, r.dest, r.crs_dep_time>>

\* C17 as stated: two rows the clean load accepted have the same flight_id
\* exactly when they agree on fl_date, carrier, origin, dest and crs_dep_time.
C17_FlightIdOfFiveValues ==
    prog = "clean_load" =>
        \A i, j \in 1..Len(kept) :
            (FiveValues(kept[i]) = FiveValues(kept[j]))
            <=> (kept[i].flight_id = kept[j].flight_id)

\* every batch sent, stored or refused, holds between 1 and batch_size rows,
\* and the accumulator of a run that goes on holds fewer than batch_size
BatchesWithinSize ==
    /\ \A i \in 1..Len(log) : log[i].stmt = "upsert" => log[i].n \in 1..batch_size
    /\ \A i \in 1..Len(flushed) : Len(flushed[i]) \in 1..batch_size
    /\ pc # "failed" => Len(rows) < batch_size

\* the step that appends the row that fills the accumulator sends the batch of
\* batch_size rows
FlushAtCapacity ==
    (kept' # kept /\ Len(rows) + 1 >= batch_size) =>
        /\ Len(log') = Len(log) + 1
        /\ log'[Len(log')].stmt = "upsert"
        /\ log'[Len(log')].n = batch_size

\* C18 as stated: every batch sent holds between 1 and batch_size rows, the
\* batch is sent in the step in which the accumulator reaches batch_size, and
\* the accumulator is empty right after every flush.
C18_EmptyAfterEveryFlush ==
    /\ [](prog = "clean_load" => BatchesWithinSize)
    /\ [][prog = "clean_load" =>
             /\ FlushAtCapacity
             /\ flushed' # flushed => rows' = <<>>]_vars

\* C18, amended: every batch sent holds between 1 and batch_size rows, the
\* batch is sent in the step in which the accumulator reaches batch_size, and
\* the accumulator is empty right after every flush at capacity; after the
\* flush of the rows left at the end of a chunk it still holds those rows,
\* fewer than batch_size, until the next chunk or the end of the run.
C18_BatchBounds ==
    /\ [](prog = "clean_load" => BatchesWithinSize)
    /\ [][prog = "clean_load" =>
             /\ FlushAtCapacity
             /\ flushed' # flushed =>
                   \/ rows' = <<>> /\ Len(flushed'[Len(flushed')]) = batch_size
                   \/ /\ chunk.rows = <<>>
                      /\ rows' = rows /\ rows = flushed'[Len(flushed')]
                      /\ pc' = "chunks"
             /\ (pc = "chunks" /\ pc' = "rows") => rows' = <<>>]_vars

\* a run with batch size 2 that flushed a full batch, then the row left
C18_Witness ==
    /\ prog = "clean_load" /\ pc = "done"
    /\ batch_size = 2
    /\ Len(flushed) = 2
    /\ Len(flushed[1]) = 2 /\ Len(flushed[2]) = 1
    /\ rows = flushed[2]

\* the flushed batches that hold fewer than batch_size rows
ShortBatches == {i \in 1..Len(flushed) : Len(flushed[i]) < batch_size}

\* the chunks read_csv has yielded
ChunksRead == (pos + chunk_size - 1) \div chunk_size

\* C19 as stated: every flush of a run except the last one carries exactly
\* batch_size rows.
C19_DrainOnce ==
    prog = "clean_load" =>
        \A i \in 1..(Len(flushed) - 1) : Len(flushed[i]) = batch_size

\* C19, amended: the rows left are drained at the end of every chunk: a batch
\* of fewer than batch_size rows is flushed only when the chunk's rows are
\* all visited and is the chunk's last flush, so there is at most one such
\* batch per chunk, and every chunk starts with an empty accumulator.
C19_DrainPerChunk ==
    /\ [](prog = "clean_load" => Cardinality(ShortBatches) <= ChunksRead)
    /\ [][prog = "clean_load" =>
             /\ (flushed' # flushed /\ Len(flushed'[Len(flushed')]) < batch_size) =>
                   (chunk.rows = <<>> /\ pc' = "chunks")
             /\ (pc = "chunks" /\ pc' = "rows") => (rows' = <<>> /\ pos' > pos)]_vars

\* a run over two chunks of one row that drained each of them
C19_Witness ==
    /\ prog = "clean_load" /\ pc = "done"
    /\ chunk_size = 1 /\ batch_size = 2
    /\ Len(csv) = 2 /\ Len(flushed) = 2
    /\ Len(flushed[1]) = 1 /\ Len(flushed[2]) = 1

\* C20: every clean load ends, in "done" or in "failed", and from then on the
\* program stays there: no statement is sent, and the running total and the
\* store do not change.
C20_Terminates ==
    /\ <>(pc \in {"done", "failed"})
    /\ [][(pc \in {"done", "failed"}) =>
             UNCHANGED <<pc, log, total_inserted, store>>]_vars

\* a finished load of three rows that flushed twice
C20_Witness ==
    /\ prog = "clean_load" /\ pc = "done"
    /\ Len(csv) = 3
    /\ Len(flushed) = 2
    /\ total_inserted = 3

\* the call styles of the claim: a mapping that holds the values under the
\* parameter names fl_date, carrier, origin, dest, crs_dep_time, and the five
\* positional arguments
CanonicalRecord == [conv |-> "row", alias |-> 1]
Positional == [conv |-> "pos", alias |-> 1]

\* C21 as stated: for five non-null values, the scheduled time 0 included, the
\* call with a mapping that holds them under the canonical names returns the
\* key the positional call returns, and neither call fails.
C21_ConventionsAgree ==
    (kpc \in {"second", "called"} /\ kstyle = CanonicalRecord /\ ValidTuple(ktup)) =>
        /\ kres.ok
        /\ build_flight_id(MakeCall(ktup, Positional)).ok
        /\ kres = build_flight_id(MakeCall(ktup, Positional))

\* the positions of the input rows that are accepted and get flight_id id
InputRowsOf(id) ==
    {j \in 1..Len(csv) : Resolves(csv[j]) /\ BuiltFrom(csv[j]).flight_id = id}

\* the last of these rows, as the loop builds it
LastRowOf(id) ==
    BuiltFrom(csv[CHOOSE j \in InputRowsOf(id) : \A k \in InputRowsOf(id) : k <= j])

\* C22: after a successful run, the entity of every flight_id the input holds
\* an accepted row for has exactly the properties of the last such row of the
\* input (a property that row has no value for is not set), whatever the
\* chunk size and the batch size, and the batches were flushed in input order.
C22_LastWriterWins ==
    CleanDone =>
        /\ Flatten(flushed) = [i \in 1..Len(SelectSeq(csv, Resolves)) |->
                                  BuiltFrom(SelectSeq(csv, Resolves)[i])]
        /\ \A j \in 1..Len(csv) : Resolves(csv[j]) =>
              LET id == BuiltFrom(csv[j]).flight_id
                  last == LastRowOf(id)
                  nodes == {i \in CleanFlightNodes : store[i].props["flight_id"] = id}
              IN /\ Cardinality(nodes) = 1
                 /\ \A i \in nodes :
                       /\ store[i].props =
                             [p \in NodeProps |-> IF p \in RowProps THEN last[p] ELSE None]
                       /\ store[i].labels = {"CleanFlight", "Flight"}

\* a run in chunks of one row whose second row rewrote the entity of the
\* first: another scheduled time, and the delay the first row had set removed
C22_Witness ==
    /\ CleanDone
    /\ csv = <<"full", "retimed">>
    /\ chunk_size = 1
    /\ Len(flushed) = 2
    /\ \E i \in CleanFlightNodes :
          /\ store[i].props["crs_dep_time"] = PyInt(1000)
          /\ store[i].props["dep_delay"] = None

====
